---- MODULE Spec2Model ----
(***************************************************************************)
(* A model of the AI Operations Assistant pipeline:                        *)
(*   agents/executor.py  ExecutorAgent  (execute_plan, retry wrapper)      *)
(*   agents/planner.py   PlannerAgent   (create_plan, _validate_plan)      *)
(*   agents/verifier.py  VerifierAgent  (verify_results)                   *)
(*   main.py             AIOperationsAssistant.process_query               *)
(*                                                                         *)
(* Python values are records carrying a py_type tag: a dict is             *)
(* [py_type |-> "dict", key |-> value, ...], a list is                     *)
(* [py_type |-> "list", items |-> <<...>>], None is [py_type |->           *)
(* "NoneType"].  A text (error message, log line, query) is a sequence of  *)
(* tokens; substring tests of the code are contiguous-subsequence tests.   *)
(***************************************************************************)
EXTENDS Integers, Sequences, FiniteSets, TLC

VARIABLES
    tools,            \* ExecutorAgent.tools: names of the registered tools
    pc,               \* position of the call in flight
    plan,             \* argument of execute_plan
    idx,              \* execute_plan: index of the step of the for loop
    steps_completed,  \* execute_plan local
    steps_failed,     \* execute_plan local
    results,          \* execute_plan local
    execution_log,    \* ExecutorAgent.execution_log
    attempt,          \* _retry_with_backoff: loop variable
    delay,            \* _retry_with_backoff local (seconds)
    last_exception,   \* _retry_with_backoff local
    invocations,      \* history: outcomes of func() in the current wrapper call
    sleeps,           \* history: delays slept in the current wrapper call
    tool_calls,       \* history: tool operations invoked during the plan
    attempted,        \* history: step indices handed to _execute_step
    exec_ret,         \* what execute_plan returned or raised
    prev_ret,         \* what the call of execute_plan before this one returned
    query,            \* argument of create_plan
    gateway_calls,    \* history: generate_json_completion calls made
    gateway_outs,     \* history: what each gateway call returned or raised
    planner_ret,      \* what create_plan returned or raised
    is_comparison,    \* what _detect_comparison_intent returned
    v_plan,           \* verify_results: argument plan
    v_exec,           \* verify_results: argument execution_result
    is_complete,      \* verify_results local
    issues,           \* verify_results local
    verify_ret,       \* what verify_results returned or raised
    stage,            \* process_query: the stage in progress
    pq_query,         \* argument of process_query
    pq_result,        \* process_query: the result dictionary
    llm_provider,     \* LLMClient.provider
    llm_max_retries,  \* LLMClient.max_retries
    llm_messages,     \* argument of generate_completion
    llm_response_format, \* argument of generate_completion
    llm_attempt,      \* generate_completion: loop variable
    llm_last_error,   \* generate_completion local
    llm_invocations,  \* history: what the provider did at each attempt
    llm_sleeps,       \* history: waits slept during the call
    llm_ret,          \* what generate_completion returned or raised
    cmp_tool,         \* compare operation: the tool it belongs to
    cmp_items,        \* compare operation: the items, each with its lookup
    cmp_units,        \* compare_weather: units
    cmp_ret,          \* what the compare operation returned or raised
    wiki_stack,       \* get_summary: the topic of each call on the stack
    wiki_page,        \* get_summary: the disambiguation page in hand
    wiki_requests,    \* history: backend requests of the call, each with
                      \* what it returned or raised
    wiki_ret          \* what get_summary returned or raised

exec_vars == <<tools, pc, plan, idx, steps_completed, steps_failed, results,
               execution_log, attempt, delay, last_exception, invocations,
               sleeps, tool_calls, attempted, exec_ret, prev_ret>>

exec_vars_but_pc ==
    <<tools, plan, idx, steps_completed, steps_failed, results, execution_log,
      attempt, delay, last_exception, invocations, sleeps, tool_calls,
      attempted, exec_ret, prev_ret>>

planner_vars == <<query, planner_ret, is_comparison>>
verifier_vars == <<v_plan, v_exec, is_complete, issues, verify_ret>>
pipeline_vars == <<stage, pq_query, pq_result>>

\* everything but the executor's state
gateway_vars == <<gateway_calls, gateway_outs>>
llm_vars == <<llm_provider, llm_max_retries, llm_messages,
              llm_response_format, llm_attempt,
              llm_last_error, llm_invocations, llm_sleeps, llm_ret>>
cmp_vars == <<cmp_tool, cmp_items, cmp_units, cmp_ret>>
wiki_vars == <<wiki_stack, wiki_page, wiki_requests, wiki_ret>>
other_vars ==
    <<planner_vars, gateway_vars, verifier_vars, pipeline_vars, llm_vars,
      cmp_vars, wiki_vars>>

vars == <<exec_vars, planner_vars, gateway_vars, verifier_vars, pipeline_vars,
          llm_vars, cmp_vars, wiki_vars>>

-----------------------------------------------------------------------------
(* Bounds of the model *)

MaxSteps == 2         \* longest plan handed to the executor

-----------------------------------------------------------------------------
(* Python values *)

None == [py_type |-> "NoneType"]
EmptyDict == [py_type |-> "dict"]
PyList(s) == [py_type |-> "list", items |-> s]

IsDict(v) == v.py_type = "dict"
IsList(v) == v.py_type = "list"
Keys(d) == DOMAIN d \ {"py_type"}

\* Python truth value of a dict, list or None
Truthy(v) ==
    CASE v.py_type = "dict" -> Keys(v) # {}
      [] v.py_type = "list" -> Len(v.items) > 0
      [] OTHER -> FALSE

\* the argument check without the emptiness test
invalid_argument_type_only(v) == ~IsDict(v)

\* `not v or not isinstance(v, dict)`, the argument check of execute_plan and
\* verify_results
invalid_argument(v) == ~Truthy(v) \/ ~IsDict(v)

\* a str whose characters do not matter
Text == [py_type |-> "str"]

\* the value is a number, not None and not a str
IsNumber(v) == ToString(v) \notin {ToString(None), ToString(Text)}

\* `v is not None`
IsNotNone(v) == ToString(v) # ToString(None)

\* dict.get(key, default)
Get(d, key, default) == IF key \in Keys(d) THEN d[key] ELSE default

-----------------------------------------------------------------------------
(* Texts *)

\* str.lower() on one token
LowerToken(tok) ==
    CASE tok = "Connection" -> "connection"
      [] tok = "Rate" -> "rate"
      [] tok = "Timeout" -> "timeout"
      [] tok = "Network" -> "network"
      [] tok = "Compare" -> "compare"
      [] tok = "VS" -> "vs"
      [] tok = "AND" -> "and"
      [] OTHER -> tok

Lower(text) == [i \in DOMAIN text |-> LowerToken(text[i])]

\* keyword in text
Contains(text, keyword) ==
    \E i \in 1..(Len(text) - Len(keyword) + 1) :
        SubSeq(text, i, i + Len(keyword) - 1) = keyword

Exc(type, text) == [type |-> type, text |-> text]
NoException == Exc("None", <<>>)

NoRet == [kind |-> "none"]
Returned(v) == [kind |-> "return", value |-> v]
Raised(e) == [kind |-> "raise", exc |-> e]

-----------------------------------------------------------------------------
(* ExecutorAgent: inputs *)

KnownTools == {"github", "weather", "wikipedia"}

\* tool registries an ExecutorAgent is constructed with (never empty)
ToolRegistries == { KnownTools, {"weather", "network"} }

\* tool names no dict can hold as a key (a JSON array given as the name)
UnhashableNames == {"[]"}

Step(n, tool, parameters) ==
    [py_type |-> "dict", step_number |-> n, action |-> "act", tool |-> tool,
     parameters |-> parameters, expected_output |-> "out"]

ParamCity == [py_type |-> "dict", city |-> "Paris"]
ParamQuery == [py_type |-> "dict", query |-> "rust"]

\* <<tool, parameters>> of the steps handed to the executor
ExecStepShapes ==
    { <<"weather", ParamCity>>, <<"github", ParamQuery>>,
      <<"github", EmptyDict>>, <<"weather", None>>,
      <<"slack", ParamQuery>>, <<"network", ParamQuery>>,
      <<"[]", ParamCity>> }

ExecStepLists ==
    UNION { [1..n -> ExecStepShapes] : n \in 0..MaxSteps }

MkSteps(shapes) ==
    PyList([i \in DOMAIN shapes |-> Step(i, shapes[i][1], shapes[i][2])])

\* a step list holding something that is not a dict
BadStepList == PyList(<<Step(1, "weather", ParamCity), [py_type |-> "str"]>>)

\* a plan whose step numbers do not follow the order of the list (nothing
\* in the executor validates a plan)
RenumberedPlan ==
    [py_type |-> "dict",
     steps |-> PyList(<<Step(2, "weather", ParamCity),
                        Step(1, "github", ParamQuery)>>)]

\* the parameter keys the dispatch looks at, each with a value
DispatchKeys == {"query", "city", "cities", "topic", "topics"}

ParamValue ==
    ("query" :> "rust") @@ ("city" :> "Paris")
    @@ ("cities" :> PyList(<<"Paris", "Rome">>)) @@ ("topic" :> "Rust")
    @@ ("topics" :> PyList(<<"Rust", "Go">>))

\* parameters holding every subset of the keys, and some with the optional
\* values supplied
DispatchParameters ==
    { EmptyDict @@ [k \in S |-> ParamValue[k]] : S \in SUBSET DispatchKeys }
    \cup { [py_type |-> "dict", query |-> "rust", sort |-> "forks",
            limit |-> 10],
           [py_type |-> "dict", city |-> "Paris", units |-> "imperial"],
           [py_type |-> "dict", cities |-> PyList(<<"Paris", "Rome">>),
            units |-> "imperial"],
           [py_type |-> "dict", topic |-> "Rust", sentences |-> 5] }

\* one-step plans over every tool and every such parameters
DispatchPlans ==
    { [py_type |-> "dict", steps |-> PyList(<<Step(1, tool, ps)>>)] :
        tool \in KnownTools, ps \in DispatchParameters }

ExecPlans ==
    { [py_type |-> "dict", steps |-> MkSteps(sh)] : sh \in ExecStepLists }
    \cup { None, EmptyDict, [py_type |-> "dict", intent |-> "search"],
           [py_type |-> "dict", steps |-> BadStepList], RenumberedPlan }
    \cup DispatchPlans

\* what a tool operation can do: return data or raise
ToolData ==
    { [py_type |-> "dict", city |-> "Paris", temperature |-> 18],
      PyList(<<>>) }

\* more of what get_current_weather can return, followed through the whole
\* of process_query: a reading out of range
PipelineToolData ==
    { [py_type |-> "dict", city |-> "Paris", temperature |-> 85] }

\* get_current_weather passes on a temperature that the backend sent as a
\* str
StrTemperatureData ==
    [py_type |-> "dict", city |-> "Paris", temperature |-> Text]

\* the data a tool operation may return at the given stage of process_query
ToolDataAt(st) ==
    IF st = "none" THEN ToolData ELSE ToolData \cup PipelineToolData

TransientToolErrors ==
    { Exc("ConnectionError", <<"Connection", "timeout">>),
      Exc("HTTPError", <<"API", "rate", "limit", "exceeded">>) }

TerminalToolErrors ==
    { Exc("ValueError", <<"City", "not", "found">>) }

ToolErrors == TransientToolErrors \cup TerminalToolErrors

-----------------------------------------------------------------------------
(* WeatherTool: the multi-location comparison *)

HTTPError(status_code, text) ==
    [type |-> "HTTPError", status_code |-> status_code, text |-> text]

\* What get_current_weather does for one city.
weather_reading(city) ==
    [py_type |-> "dict", city |-> city, country |-> "GB", temperature |-> 18,
     conditions |-> "clear sky"]

WeatherLookups(city) ==
    { Returned(weather_reading(city)),
      Raised(Exc("ValueError", <<"City", city, "not", "found.">>)),
      Raised(HTTPError(503, <<"503", "Server", "Error">>)),
      Raised(Exc("ConnectionError", <<"Connection", "timeout">>)) }

\* compare_weather: the entry appended for one city.
weather_placeholder(city, units, error) ==
    [py_type |-> "dict", city |-> city, country |-> "Unknown",
     error |-> error, temperature |-> None, conditions |-> "Error",
     units |-> units]

weather_entry(city, units, lookup) ==
    IF lookup.kind = "return" THEN lookup.value
    ELSE IF lookup.exc.type = "ValueError"
    THEN weather_placeholder(city, units, lookup.exc.text)
    ELSE weather_placeholder(city, units,
                             <<"Unexpected", "error:">> \o lookup.exc.text)

\* what the lookups of get_current_weather can do, one for each city
CityLookups(cities) ==
    { lookups \in [DOMAIN cities ->
                      UNION { WeatherLookups(cities[i]) : i \in DOMAIN cities }] :
        \A i \in DOMAIN cities : lookups[i] \in WeatherLookups(cities[i]) }

\* the comparison giving up at the first city whose lookup fails
compare_weather_failing_with_city(cities, units, lookups) ==
    IF \E i \in DOMAIN cities : lookups[i].kind = "raise"
    THEN lookups[CHOOSE i \in DOMAIN cities :
                    /\ lookups[i].kind = "raise"
                    /\ \A j \in 1..(i - 1) : lookups[j].kind = "return"]
    ELSE [kind |-> "return",
          value |-> [py_type |-> "list",
                     items |-> [i \in DOMAIN cities |-> lookups[i].value]]]

\* compare_weather: one entry for each city, whatever its lookup did
compare_weather(cities, units, lookups) ==
    Returned(PyList([i \in DOMAIN cities |->
                        weather_entry(cities[i], units, lookups[i])]))

-----------------------------------------------------------------------------
(* ExecutorAgent: helpers *)

Str(text) == [py_type |-> "str", text |-> text]

max_retries == 3
initial_delay == 1
backoff_factor == 2

TransientKeywords ==
    { <<"timeout">>, <<"rate", "limit">>, <<"429">>, <<"503">>, <<"502">>,
      <<"connection">>, <<"network">> }

\* the lookup in self.tools left out
tool_registered_unchecked(tool_name) == TRUE

\* _execute_step: the named tool is one of self.tools
tool_registered(tool_name) == tool_name \in tools

\* every error is taken for a transient one
is_transient_any(e) == TRUE

\* _retry_with_backoff: is this error worth retrying
is_transient(e) ==
    \E keyword \in TransientKeywords : Contains(Lower(e.text), keyword)

\* one retry too many
RaisesNowLate(e, att) == ~is_transient(e) \/ att > max_retries

\* _retry_with_backoff: raise now, or sleep and try again
RaisesNow(e, att) == ~is_transient(e) \/ att >= max_retries

\* the delay never grows
NextDelayConstant(d) == d

\* _retry_with_backoff: delay of the next sleep
NextDelay(d) == d * backoff_factor

\* the weather dispatch looking at cities before city
call_tool_method_cities_first(tool_name, parameters) ==
    IF tool_name \in KnownTools /\ ~IsDict(parameters)
    THEN Raised(Exc("TypeError", <<"argument", "of", "type", parameters.py_type,
                                   "is", "not", "iterable">>))
    ELSE CASE tool_name = "github" ->
                IF "query" \in Keys(parameters)
                THEN [kind |-> "call", method |-> "search_repositories",
                      args |-> [query |-> parameters.query,
                                sort |-> Get(parameters, "sort", "stars"),
                                limit |-> Get(parameters, "limit", 5)]]
                ELSE Raised(Exc("ValueError",
                        <<"GitHub", "tool", "requires", "query", "parameter">>))
           [] tool_name = "weather" ->
                IF "cities" \in Keys(parameters)
                THEN [kind |-> "call", method |-> "compare_weather",
                      args |-> [cities |-> parameters.cities,
                                units |-> Get(parameters, "units", "metric")]]
                ELSE IF "city" \in Keys(parameters)
                THEN [kind |-> "call", method |-> "get_current_weather",
                      args |-> [city |-> parameters.city,
                                units |-> Get(parameters, "units", "metric")]]
                ELSE Raised(Exc("ValueError",
                        <<"Weather", "tool", "requires", "city", "or", "cities",
                          "parameter">>))
           [] tool_name = "wikipedia" ->
                IF "topic" \in Keys(parameters)
                THEN [kind |-> "call", method |-> "get_summary",
                      args |-> [topic |-> parameters.topic,
                                sentences |-> Get(parameters, "sentences", 3)]]
                ELSE IF "query" \in Keys(parameters)
                THEN [kind |-> "call", method |-> "search_articles",
                      args |-> [query |-> parameters.query,
                                limit |-> Get(parameters, "limit", 5)]]
                ELSE IF "topics" \in Keys(parameters)
                THEN [kind |-> "call", method |-> "compare_topics",
                      args |-> [topics |-> parameters.topics]]
                ELSE Raised(Exc("ValueError",
                        <<"Wikipedia", "tool", "requires", "topic", "query",
                          "or", "topics", "parameter">>))
           [] OTHER ->
                Raised(Exc("ValueError", <<"Unknown", "tool:", tool_name>>))

\* _call_tool_method: the tool operation the parameters select, or the error
call_tool_method(tool_name, parameters) ==
    IF tool_name \in KnownTools /\ ~IsDict(parameters)
    THEN Raised(Exc("TypeError", <<"argument", "of", "type", parameters.py_type,
                                   "is", "not", "iterable">>))
    ELSE CASE tool_name = "github" ->
                IF "query" \in Keys(parameters)
                THEN [kind |-> "call", method |-> "search_repositories",
                      args |-> [query |-> parameters.query,
                                sort |-> Get(parameters, "sort", "stars"),
                                limit |-> Get(parameters, "limit", 5)]]
                ELSE Raised(Exc("ValueError",
                        <<"GitHub", "tool", "requires", "query", "parameter">>))
           [] tool_name = "weather" ->
                IF "city" \in Keys(parameters)
                THEN [kind |-> "call", method |-> "get_current_weather",
                      args |-> [city |-> parameters.city,
                                units |-> Get(parameters, "units", "metric")]]
                ELSE IF "cities" \in Keys(parameters)
                THEN [kind |-> "call", method |-> "compare_weather",
                      args |-> [cities |-> parameters.cities,
                                units |-> Get(parameters, "units", "metric")]]
                ELSE Raised(Exc("ValueError",
                        <<"Weather", "tool", "requires", "city", "or", "cities",
                          "parameter">>))
           [] tool_name = "wikipedia" ->
                IF "topic" \in Keys(parameters)
                THEN [kind |-> "call", method |-> "get_summary",
                      args |-> [topic |-> parameters.topic,
                                sentences |-> Get(parameters, "sentences", 3)]]
                ELSE IF "query" \in Keys(parameters)
                THEN [kind |-> "call", method |-> "search_articles",
                      args |-> [query |-> parameters.query,
                                limit |-> Get(parameters, "limit", 5)]]
                ELSE IF "topics" \in Keys(parameters)
                THEN [kind |-> "call", method |-> "compare_topics",
                      args |-> [topics |-> parameters.topics]]
                ELSE Raised(Exc("ValueError",
                        <<"Wikipedia", "tool", "requires", "topic", "query",
                          "or", "topics", "parameter">>))
           [] OTHER ->
                Raised(Exc("ValueError", <<"Unknown", "tool:", tool_name>>))

\* _summarize_result
summarize_result(result) ==
    CASE result.py_type = "NoneType" -> <<"No", "data">>
      [] result.py_type = "list" ->
            <<"Retrieved", ToString(Len(result.items)), "items">>
      [] result.py_type = "dict" ->
            IF "city" \in Keys(result)
            THEN <<"Weather", "data", "for", result.city>>
            ELSE IF "name" \in Keys(result)
            THEN <<"Data", "for", result.name>>
            ELSE IF "title" \in Keys(result)
            THEN <<"Article:", result.title>>
            ELSE <<"Dictionary", "with", ToString(Cardinality(Keys(result))),
                   "fields">>
      [] OTHER -> <<"Data:", result.py_type>>

\* the entry that reports every step as a success
log_entry_always_success(step_number, status, result, error) ==
    [step_number |-> step_number, status |-> "SUCCESS",
     detail |-> IF status = "success" THEN <<"No", "data">> ELSE error]

\* _log_execution: the entry appended to execution_log (timestamp left out)
log_entry(step_number, status, result, error) ==
    IF status = "success"
    THEN [step_number |-> step_number, status |-> "SUCCESS",
          detail |-> summarize_result(result)]
    ELSE [step_number |-> step_number, status |-> "FAILED", detail |-> error]

\* a StepResult whose error is always a str
StepResultErrorAlwaysStr(step_number, status, data, error, execution_time) ==
    [py_type |-> "dict", step_number |-> step_number, status |-> status,
     data |-> data,
     error |-> IF error = [py_type |-> "NoneType"]
               THEN [py_type |-> "str", text |-> <<>>] ELSE error,
     execution_time |-> execution_time]

\* the StepResult dictionaries built by _execute_step and execute_plan
StepResult(step_number, status, data, error, execution_time) ==
    [py_type |-> "dict", step_number |-> step_number, status |-> status,
     data |-> data, error |-> error, execution_time |-> execution_time]

RECURSIVE SumOf(_)
SumOf(seq) == IF seq = <<>> THEN 0 ELSE seq[1] + SumOf(Tail(seq))

\* _execute_step: time.time() - start_time, in seconds; the time goes by in
\* the sleeps of the retry wrapper
execution_time == SumOf(sleeps)

\* success only when no step failed
overall_success_strict(completed, failed) == failed = 0

\* execute_plan: overall success
overall_success(completed, failed) == completed > 0

ExecutionResult ==
    [py_type |-> "dict",
     success |-> overall_success(steps_completed, steps_failed),
     steps_completed |-> steps_completed,
     steps_failed |-> steps_failed,
     results |-> results,
     execution_log |-> execution_log]

-----------------------------------------------------------------------------
(* ExecutorAgent: execute_plan *)

\* the loop walking the list from its end
CurrentStepReversed == plan.steps.items[Len(plan.steps.items) - idx + 1]

CurrentStep == plan.steps.items[idx]

\* execute_plan, the body of the try after _execute_step returned step_result
RecordReturned(step_result) ==
    /\ IF step_result.status = "success"
       THEN /\ steps_completed' = steps_completed + 1
            /\ steps_failed' = steps_failed
            /\ execution_log' = Append(execution_log,
                   log_entry(step_result.step_number, "success",
                             step_result.data, <<>>))
       ELSE /\ steps_failed' = steps_failed + 1
            /\ steps_completed' = steps_completed
            /\ execution_log' = Append(execution_log,
                   log_entry(step_result.step_number, "failed", None,
                             step_result.error.text))
    /\ results' = Append(results, step_result)
    /\ idx' = idx + 1
    /\ pc' = "loop"
    /\ exec_ret' = exec_ret

\* the except branch of the loop body without the failure counted
RecordUnexpectedUncounted(step_number, e) ==
    /\ steps_failed' = steps_failed
    /\ steps_completed' = steps_completed
    /\ results' = Append(results,
           StepResult(step_number, "failed", None,
                      Str(<<"Unexpected", "error:">> \o e.text), 0))
    /\ execution_log' = Append(execution_log,
           log_entry(step_number, "failed", None,
                     <<"Unexpected", "error:">> \o e.text))
    /\ idx' = idx + 1
    /\ pc' = "loop"
    /\ exec_ret' = exec_ret

\* execute_plan, the except branch of the loop body
RecordUnexpected(step_number, e) ==
    /\ steps_failed' = steps_failed + 1
    /\ steps_completed' = steps_completed
    /\ results' = Append(results,
           StepResult(step_number, "failed", None,
                      Str(<<"Unexpected", "error:">> \o e.text), 0))
    /\ execution_log' = Append(execution_log,
           log_entry(step_number, "failed", None,
                     <<"Unexpected", "error:">> \o e.text))
    /\ idx' = idx + 1
    /\ pc' = "loop"
    /\ exec_ret' = exec_ret

\* execute_plan with the log of the call before kept
execute_plan_keeping_log(p) ==
    /\ plan' = p
    /\ IF invalid_argument(p)
       THEN /\ exec_ret' = Raised(Exc("ValueError",
                   <<"Plan", "must", "be", "a", "non-empty", "dictionary">>))
            /\ pc' = "done"
            /\ UNCHANGED <<execution_log, idx, steps_completed, steps_failed,
                           results>>
       ELSE IF "steps" \notin Keys(p) \/ ~Truthy(p.steps)
       THEN /\ exec_ret' = Raised(Exc("ValueError",
                   <<"Plan", "must", "contain", "at", "least", "one", "step">>))
            /\ pc' = "done"
            /\ UNCHANGED <<execution_log, idx, steps_completed, steps_failed,
                           results>>
       ELSE /\ execution_log' = execution_log
            /\ steps_completed' = 0
            /\ steps_failed' = 0
            /\ results' = <<>>
            /\ idx' = 1
            /\ pc' = "loop"
            /\ exec_ret' = NoRet
    /\ UNCHANGED <<tools, attempt, delay, last_exception>>

\* execute_plan up to the for loop: the argument checks and the resets
execute_plan(p) ==
    /\ plan' = p
    /\ IF invalid_argument(p)
       THEN /\ exec_ret' = Raised(Exc("ValueError",
                   <<"Plan", "must", "be", "a", "non-empty", "dictionary">>))
            /\ pc' = "done"
            /\ UNCHANGED <<execution_log, idx, steps_completed, steps_failed,
                           results>>
       ELSE IF "steps" \notin Keys(p) \/ ~Truthy(p.steps)
       THEN /\ exec_ret' = Raised(Exc("ValueError",
                   <<"Plan", "must", "contain", "at", "least", "one", "step">>))
            /\ pc' = "done"
            /\ UNCHANGED <<execution_log, idx, steps_completed, steps_failed,
                           results>>
       ELSE /\ execution_log' = <<>>
            /\ steps_completed' = 0
            /\ steps_failed' = 0
            /\ results' = <<>>
            /\ idx' = 1
            /\ pc' = "loop"
            /\ exec_ret' = NoRet
    /\ UNCHANGED <<tools, attempt, delay, last_exception>>

\* a caller hands a plan to ExecutorAgent.execute_plan
ExecutePlan(p) ==
    /\ pc = "idle"
    /\ execute_plan(p)
    /\ UNCHANGED <<invocations, sleeps, tool_calls, attempted, prev_ret>>
    /\ UNCHANGED other_vars

\* the plans followed through a second call on the same ExecutorAgent
RepeatPlans ==
    { [py_type |-> "dict", steps |-> MkSteps(shapes)] :
        shapes \in { << <<"weather", ParamCity>> >>,
                     << <<"slack", ParamQuery>> >>,
                     << <<"weather", ParamCity>>, <<"slack", ParamQuery>> >> } }

\* the caller keeps the ExecutionResult it got and hands the same
\* ExecutorAgent another plan; the histories start again with the call
ExecutePlanAgain(p) ==
    /\ pc = "done"
    /\ stage = "none"
    /\ exec_ret.kind = "return"
    /\ prev_ret = NoRet
    /\ plan \in RepeatPlans
    /\ prev_ret' = exec_ret
    /\ invocations' = <<>>
    /\ sleeps' = <<>>
    /\ tool_calls' = <<>>
    /\ attempted' = <<>>
    /\ execute_plan(p)
    /\ UNCHANGED other_vars

\* one iteration of the for loop up to the retry wrapper: _execute_step
\* resolves the tool
BeginStep ==
    /\ pc = "loop"
    /\ idx <= Len(plan.steps.items)
    /\ invocations' = <<>>
    /\ sleeps' = <<>>
    /\ IF ~IsDict(CurrentStep)
       THEN \* step.get fails outside the try
            /\ exec_ret' = Raised(Exc("AttributeError",
                   <<CurrentStep.py_type, "object", "has", "no", "attribute",
                     "get">>))
            /\ pc' = "done"
            /\ UNCHANGED <<idx, steps_completed, steps_failed, results,
                           execution_log, attempt, delay, last_exception,
                           attempted>>
       ELSE LET step_number == Get(CurrentStep, "step_number", 0)
                tool_name == Get(CurrentStep, "tool", "")
            IN  /\ attempted' = Append(attempted, idx)
                /\ IF tool_name \in UnhashableNames
                   THEN /\ RecordUnexpected(step_number,
                               Exc("TypeError", <<"unhashable", "type:", "list">>))
                        /\ UNCHANGED <<attempt, delay, last_exception>>
                   ELSE IF ~tool_registered(tool_name)
                   THEN /\ RecordReturned(
                               StepResult(step_number, "failed", None,
                                   Str(<<"Tool", tool_name, "not", "found", "in",
                                         "available", "tools">>), 0))
                        /\ UNCHANGED <<attempt, delay, last_exception>>
                   ELSE /\ attempt' = 0
                        /\ delay' = initial_delay
                        /\ last_exception' = NoException
                        /\ pc' = "call"
                        /\ UNCHANGED <<idx, steps_completed, steps_failed,
                                       results, execution_log, exec_ret>>
    /\ UNCHANGED <<tools, plan, prev_ret, tool_calls>>
    /\ UNCHANGED other_vars

\* func() raised e and nothing catches what the retry wrapper re-raises
FuncRaisedEscapes(e) ==
    /\ last_exception' = e
    /\ invocations' = Append(invocations, Raised(e))
    /\ IF RaisesNow(e, attempt)
       THEN /\ exec_ret' = Raised(e)
            /\ pc' = "done"
            /\ UNCHANGED <<idx, steps_completed, steps_failed, results,
                           execution_log>>
       ELSE /\ pc' = "sleep"
            /\ UNCHANGED <<idx, steps_completed, steps_failed, results,
                           execution_log, exec_ret>>

\* _retry_with_backoff: func() raised e
FuncRaised(e) ==
    /\ last_exception' = e
    /\ invocations' = Append(invocations, Raised(e))
    /\ IF RaisesNow(e, attempt)
       THEN RecordReturned(
                StepResult(Get(CurrentStep, "step_number", 0), "failed", None,
                           Str(e.text), execution_time))
       ELSE /\ pc' = "sleep"
            /\ UNCHANGED <<idx, steps_completed, steps_failed, results,
                           execution_log, exec_ret>>

\* _retry_with_backoff: func() returned data
FuncReturned(data) ==
    /\ last_exception' = last_exception
    /\ invocations' = Append(invocations, Returned(data))
    /\ RecordReturned(
           StepResult(Get(CurrentStep, "step_number", 0), "success", data, None,
                      execution_time))

\* one attempt of the retry wrapper: the dispatch and the tool operation,
\* which returns or raises
Invoke ==
    /\ pc = "call"
    /\ LET d == call_tool_method(Get(CurrentStep, "tool", ""),
                                 Get(CurrentStep, "parameters", EmptyDict))
       IN  IF d.kind = "raise"
           THEN /\ FuncRaised(d.exc)
                /\ tool_calls' = tool_calls
           ELSE /\ tool_calls' = Append(tool_calls,
                       [step |-> idx, method |-> d.method, args |-> d.args])
                /\ IF d.method = "compare_weather" /\ IsList(d.args.cities)
                   THEN \E lookups \in CityLookups(d.args.cities.items) :
                           LET out == compare_weather(d.args.cities.items,
                                                      d.args.units, lookups)
                           IN  IF out.kind = "return"
                               THEN FuncReturned(out.value)
                               ELSE FuncRaised(out.exc)
                   ELSE \/ \E data \in ToolDataAt(stage) : FuncReturned(data)
                        \/ stage # "none" /\ FuncReturned(StrTemperatureData)
                        \/ \E e \in ToolErrors : FuncRaised(e)
    /\ UNCHANGED <<tools, plan, prev_ret, attempt, delay, sleeps, attempted>>
    /\ UNCHANGED other_vars

\* _retry_with_backoff: time.sleep(delay), then the next attempt
Sleep ==
    /\ pc = "sleep"
    /\ sleeps' = Append(sleeps, delay)
    /\ delay' = NextDelay(delay)
    /\ attempt' = attempt + 1
    /\ pc' = "call"
    /\ UNCHANGED <<tools, plan, prev_ret, idx, steps_completed, steps_failed,
                   results,
                   execution_log, last_exception, invocations, tool_calls,
                   attempted, exec_ret>>
    /\ UNCHANGED other_vars

\* execute_plan after the loop: the ExecutionResult is returned
FinishPlan ==
    /\ pc = "loop"
    /\ idx > Len(plan.steps.items)
    /\ exec_ret' = Returned(ExecutionResult)
    /\ pc' = "done"
    /\ UNCHANGED <<tools, plan, prev_ret, idx, steps_completed, steps_failed,
                   results,
                   execution_log, attempt, delay, last_exception, invocations,
                   sleeps, tool_calls, attempted>>
    /\ UNCHANGED other_vars

-----------------------------------------------------------------------------
(* PlannerAgent *)

MaxPlanSteps == 2     \* longest step list in an LLM response

required_fields == {"task_description", "intent", "steps"}
step_required_fields ==
    {"step_number", "action", "tool", "parameters", "expected_output"}
valid_intents == {"search", "compare", "summarize", "mixed"}
valid_tools == {"github", "weather", "wikipedia"}

IsSpace(tok) == tok \in {" "}

RECURSIVE lstrip(_)
lstrip(text) ==
    IF text # <<>> /\ IsSpace(Head(text)) THEN lstrip(Tail(text)) ELSE text

RECURSIVE rstrip(_)
rstrip(text) ==
    IF text # <<>> /\ IsSpace(text[Len(text)])
    THEN rstrip(SubSeq(text, 1, Len(text) - 1))
    ELSE text

\* str.strip()
strip(text) == rstrip(lstrip(text))

\* the checks on a step without the one on its number
validate_step_unnumbered(i, step) ==
    /\ IsDict(step)
    /\ \A field \in step_required_fields : field \in Keys(step)
    /\ step.tool \in valid_tools
    /\ IsDict(step.parameters)

\* _validate_plan, the checks on step i (0-based) of the list
validate_step(i, step) ==
    /\ IsDict(step)
    /\ \A field \in step_required_fields : field \in Keys(step)
    /\ step.step_number = i + 1
    /\ step.tool \in valid_tools
    /\ IsDict(step.parameters)

\* _validate_plan with the entities check made a rejection
validate_plan_entities_required(p) ==
    /\ IsDict(p)
    /\ \A field \in required_fields : field \in Keys(p)
    /\ p.intent \in valid_intents
    /\ Truthy(p.steps) /\ IsList(p.steps)
    /\ \A i \in 0..(Len(p.steps.items) - 1) :
           validate_step(i, p.steps.items[i + 1])
    /\ ("comparison_mode" \in Keys(p) /\ p.comparison_mode) =>
           ("entities" \in Keys(p) /\ Truthy(p.entities))

\* _validate_plan
validate_plan(p) ==
    /\ IsDict(p)
    /\ \A field \in required_fields : field \in Keys(p)
    /\ p.intent \in valid_intents
    /\ Truthy(p.steps) /\ IsList(p.steps)
    /\ \A i \in 0..(Len(p.steps.items) - 1) :
           validate_step(i, p.steps.items[i + 1])

(* inputs *)

Queries ==
    { <<>>, <<" ">>, <<" ", " ">>, <<"weather", " ", "Paris">>,
      <<" ", "weather", " ">> }

\* the dict without the key
Without(d, key) == [k \in DOMAIN d \ {key} |-> d[k]]

\* the dict with the key set
With(d, key, value) ==
    [k \in DOMAIN d \cup {key} |-> IF k = key THEN value ELSE d[k]]

ValidStep(n) == Step(n, "weather", ParamCity)

\* steps an LLM may put at position n: a valid one, or one defect
LLMSteps(n) ==
    { ValidStep(n), Step(n, "github", ParamQuery), Step(n, "slack", ParamQuery),
      Step(n, "weather", None), [py_type |-> "str"] }
    \cup { Step(m, "weather", ParamCity) : m \in 0..(MaxPlanSteps + 1) }
    \cup { Without(ValidStep(n), field) : field \in step_required_fields }

LLMStepLists ==
    UNION { { s \in [1..n -> UNION { LLMSteps(m) : m \in 1..n }] :
                \A i \in 1..n : s[i] \in LLMSteps(i) } : n \in 1..MaxPlanSteps }

\* values an LLM may give to the optional fields
OptionalFields ==
    { EmptyDict,
      [py_type |-> "dict", comparison_mode |-> FALSE],
      [py_type |-> "dict", comparison_mode |-> TRUE],
      [py_type |-> "dict", comparison_mode |-> TRUE, entities |-> PyList(<<>>)],
      [py_type |-> "dict", comparison_mode |-> TRUE,
       entities |-> PyList(<<"Paris", "Rome">>)] }

BasePlan(intent, steps, optional) ==
    [k \in {"py_type", "task_description", "intent", "steps"}
           \cup Keys(optional) |->
        CASE k = "py_type" -> "dict"
          [] k = "task_description" -> "task"
          [] k = "intent" -> intent
          [] k = "steps" -> steps
          [] OTHER -> optional[k]]

\* plans that vary the top-level fields
LLMTopPlans ==
    LET full == { BasePlan(intent, steps, optional) :
                    intent \in valid_intents \cup {"delete"},
                    steps \in { PyList(<<>>), [py_type |-> "dict", a |-> 1],
                                PyList(<<ValidStep(1)>>),
                                PyList(<<ValidStep(2)>>) },
                    optional \in OptionalFields }
    IN  full \cup { Without(pl, field) : pl \in full, field \in required_fields }

\* plans that vary the steps
LLMStepPlans ==
    { BasePlan("search", PyList(steps), EmptyDict) : steps \in LLMStepLists }

\* a plan of each kind: one step, two steps compared, misnumbered, bad intent
PipelinePlans ==
    { BasePlan("search", PyList(<<ValidStep(1)>>), EmptyDict),
      BasePlan("compare",
               PyList(<<ValidStep(1), Step(2, "github", ParamQuery)>>),
               [py_type |-> "dict", comparison_mode |-> TRUE,
                entities |-> PyList(<<"Paris", "Rome">>)]),
      BasePlan("search", PyList(<<ValidStep(2)>>), EmptyDict),
      BasePlan("delete", PyList(<<ValidStep(1)>>), EmptyDict) }

\* what generate_json_completion may hand back as parsed JSON
LLMPlanResponses ==
    LLMTopPlans \cup LLMStepPlans \cup PipelinePlans
        \cup { None, PyList(<<>>), EmptyDict }

\* errors generate_json_completion raises
GatewayErrors ==
    { Exc("Exception", <<"Failed", "after", "3", "attempts.", "Last", "error:",
                         "rate", "limit">>),
      Exc("ValueError", <<"Failed", "to", "parse", "JSON", "response">>),
      Exc("AuthenticationError", <<"Invalid", "API", "key">>) }

PlannerGatewayOutcomes ==
    { Returned(v) : v \in LLMPlanResponses } \cup { Raised(e) : e \in GatewayErrors }

\* the answers followed through the whole of process_query
PipelinePlannerOutcomes ==
    { Returned(v) : v \in PipelinePlans } \cup { Raised(e) : e \in GatewayErrors }

(* _detect_comparison_intent *)

\* queries, one token per word, space or comma
ComparisonQueries ==
    { <<"compare", " ", "Paris", " ", "London">>,
      <<"Compare", " ", "Paris">>,
      <<"a", " ", "comparison">>,
      <<"Paris", " ", "vs", " ", "London">>,
      <<"Paris", " ", "VS", " ", "London">>,
      <<"Paris", " ", "versus", " ", "London">>,
      <<"difference", " ", "between", " ", "Paris">>,
      <<"differences", " ", "between", " ", "Paris">>,
      <<"difference", " ", "Paris", " ", "between">>,
      <<"which", " ", "is", " ", "better">>,
      <<"which", " ", "better", " ", "is">>,
      <<"better", " ", "than", " ", "Paris">>,
      <<"contrast", " ", "Paris">>,
      <<"Paris", " ", "and", " ", "London">>,
      <<"Paris", " ", "AND", " ", "London">>,
      <<"Paris", " ", "or", " ", "London">>,
      <<"Paris", ",", " ", "and", " ", "London">>,
      <<"Paris", ",", " ", "or", " ", "London">>,
      <<"Paris", ",", " ", "London">>,
      <<"and", " ", "Paris">>,
      <<"Paris", ",", "and">>,
      <<"Paris", " ", "or">>,
      <<"weather", " ", "Paris">>,
      <<"better", " ", "weather">>,
      <<"between", " ", "Paris">> }

\* comparison_keywords
comparison_keywords ==
    { <<"compare">>, <<"comparison">>, <<"vs">>, <<"versus">>,
      <<"difference", " ", "between">>, <<"differences", " ", "between">>,
      <<"which", " ", "is", " ", "better">>, <<"better", " ", "than">>,
      <<"contrast">>, <<" ", "and", " ">>, <<" ", "or", " ">> }

\* the detection with the conjunctions left to the comma test
detect_comparison_intent_comma_only(user_query) ==
    LET query_lower == Lower(user_query) IN
    \/ \E keyword \in comparison_keywords \
                        { <<" ", "and", " ">>, <<" ", "or", " ">> } :
           Contains(query_lower, keyword)
    \/ /\ Contains(query_lower, <<",">>)
       /\ \/ Contains(query_lower, <<" ", "and", " ">>)
          \/ Contains(query_lower, <<" ", "or", " ">>)

\* _detect_comparison_intent
detect_comparison_intent(user_query) ==
    LET query_lower == Lower(user_query) IN
    \/ \E keyword \in comparison_keywords : Contains(query_lower, keyword)
    \/ /\ Contains(query_lower, <<",">>)
       /\ \/ Contains(query_lower, <<" ", "and", " ">>)
          \/ Contains(query_lower, <<" ", "or", " ">>)

\* a caller hands a query to PlannerAgent._detect_comparison_intent
DetectComparisonIntent(q) ==
    /\ pc = "idle"
    /\ query' = q
    /\ is_comparison' = Returned(detect_comparison_intent(q))
    /\ pc' = "done"
    /\ UNCHANGED <<exec_vars_but_pc, planner_ret, gateway_vars, verifier_vars,
                   pipeline_vars, llm_vars, cmp_vars, wiki_vars>>

(* create_plan *)

\* create_plan up to the gateway call
create_plan(user_query) ==
    IF user_query = <<>> \/ strip(user_query) = <<>>
    THEN /\ query' = user_query
         /\ planner_ret' = Raised(Exc("ValueError",
                <<"User", "query", "cannot", "be", "empty">>))
         /\ gateway_calls' = gateway_calls
         /\ is_comparison' = is_comparison
         /\ pc' = "done"
    ELSE /\ query' = strip(user_query)
         /\ planner_ret' = NoRet
         /\ is_comparison' = Returned(detect_comparison_intent(user_query))
         /\ gateway_calls' = Append(gateway_calls,
                [caller |-> "planner", method |-> "generate_json_completion",
                 max_tokens |-> 2000])
         /\ pc' = "planning"

\* a caller hands a query to PlannerAgent.create_plan
CreatePlan(q) ==
    /\ pc = "idle"
    /\ create_plan(q)
    /\ UNCHANGED <<exec_vars_but_pc, gateway_outs, verifier_vars, pipeline_vars>>
    /\ UNCHANGED <<llm_vars, cmp_vars, wiki_vars>>

\* create_plan asking the gateway once more for a plan that failed validation
PlannerGatewayReturnsAsksAgain(out) ==
    /\ pc = "planning"
    /\ stage = "planning" => out \in PipelinePlannerOutcomes
    /\ gateway_outs' = Append(gateway_outs, out)
    /\ IF out.kind = "return" /\ ~validate_plan(out.value)
          /\ Len(gateway_calls) < 2
       THEN /\ gateway_calls' = Append(gateway_calls,
                   [caller |-> "planner",
                    method |-> "generate_json_completion",
                    max_tokens |-> 2000])
            /\ UNCHANGED <<planner_ret, pc>>
       ELSE /\ planner_ret' =
                  IF out.kind = "raise" THEN out
                  ELSE IF ~validate_plan(out.value)
                  THEN Raised(Exc("ValueError",
                           <<"Generated", "plan", "failed", "validation">>))
                  ELSE Returned(out.value)
            /\ pc' = "done"
            /\ UNCHANGED gateway_calls
    /\ UNCHANGED <<exec_vars_but_pc, query, is_comparison, verifier_vars,
                   pipeline_vars>>
    /\ UNCHANGED <<llm_vars, cmp_vars, wiki_vars>>

\* create_plan after the gateway call: the error is passed on, the plan is
\* validated and returned
PlannerGatewayReturns(out) ==
    /\ pc = "planning"
    /\ stage = "planning" => out \in PipelinePlannerOutcomes
    /\ planner_ret' =
          IF out.kind = "raise" THEN out
          ELSE IF ~validate_plan(out.value)
          THEN Raised(Exc("ValueError",
                   <<"Generated", "plan", "failed", "validation">>))
          ELSE Returned(out.value)
    /\ gateway_outs' = Append(gateway_outs, out)
    /\ pc' = "done"
    /\ UNCHANGED <<exec_vars_but_pc, query, is_comparison, gateway_calls,
                   verifier_vars, pipeline_vars>>
    /\ UNCHANGED <<llm_vars, cmp_vars, wiki_vars>>

-----------------------------------------------------------------------------
(* VerifierAgent *)

\* len() of a list or a dict
PyLen(v) == IF IsList(v) THEN Len(v.items) ELSE Cardinality(Keys(v))

\* complete as soon as one step succeeded
check_completeness_by_success(p, er) == Get(er, "success", FALSE)

\* _check_completeness
check_completeness(p, er) ==
    Get(er, "steps_completed", 0) = PyLen(Get(p, "steps", PyList(<<>>)))

\* the loop body with the upper limit itself taken for unusual
result_anomalies_limit_included(result) ==
    IF Get(result, "status", "") # "success" THEN <<>>
    ELSE LET data == Get(result, "data", None)
         IN  IF ~Truthy(data) THEN <<>>
             ELSE (IF IsDict(data) /\ "temperature" \in Keys(data)
                      /\ IsNotNone(data.temperature)
                      /\ (data.temperature < -100 \/ data.temperature >= 60)
                   THEN << <<"Unusual", "temperature", "value:",
                             ToString(data.temperature)>> >>
                   ELSE <<>>)
                  \o (IF IsList(data) /\ Len(data.items) = 0
                      THEN << <<"Empty", "result", "set", "returned">> >>
                      ELSE <<>>)

\* _check_for_anomalies, the body of the loop for one result
result_anomalies(result) ==
    IF Get(result, "status", "") # "success" THEN <<>>
    ELSE LET data == Get(result, "data", None)
         IN  IF ~Truthy(data) THEN <<>>
             ELSE (IF IsDict(data) /\ "temperature" \in Keys(data)
                      /\ IsNotNone(data.temperature)
                      /\ (data.temperature < -100 \/ data.temperature > 60)
                   THEN << <<"Unusual", "temperature", "value:",
                             ToString(data.temperature)>> >>
                   ELSE <<>>)
                  \o (IF IsList(data) /\ Len(data.items) = 0
                      THEN << <<"Empty", "result", "set", "returned">> >>
                      ELSE <<>>)

\* _check_for_anomalies: the comparison of a temperature that is not a
\* number with -100 raises TypeError
anomaly_check_raises(er) ==
    \E i \in DOMAIN Get(er, "results", <<>>) :
        LET result == er.results[i]
            data == Get(result, "data", None)
        IN  /\ Get(result, "status", "") = "success"
            /\ IsDict(data)
            /\ "temperature" \in Keys(data)
            /\ IsNotNone(data.temperature)
            /\ ~IsNumber(data.temperature)

RECURSIVE anomalies_of(_)
anomalies_of(rs) ==
    IF rs = <<>> THEN <<>>
    ELSE result_anomalies(Head(rs)) \o anomalies_of(Tail(rs))

\* _check_for_anomalies
check_for_anomalies(er) == anomalies_of(Get(er, "results", <<>>))

\* verify_results: the issues collected before the quality pass
collected_issues(p, er) ==
    (IF Get(er, "steps_failed", 0) > 0
     THEN << <<ToString(er.steps_failed), "step(s)", "failed", "during",
               "execution">> >>
     ELSE <<>>)
    \o (IF ~check_completeness(p, er)
        THEN << <<"Only", ToString(Get(er, "steps_completed", 0)), "of",
                  ToString(PyLen(Get(p, "steps", PyList(<<>>)))), "steps",
                  "completed", "successfully">> >>
        ELSE <<>>)
    \o check_for_anomalies(er)

\* _format_item
format_item(item) ==
    IF IsDict(item)
    THEN IF "name" \in Keys(item) THEN <<item.name>>
         ELSE IF "title" \in Keys(item) THEN <<item.title>>
         ELSE IF "city" \in Keys(item)
         THEN <<item.city,
                IF "temperature" \in Keys(item)
                THEN (IF IsNotNone(item.temperature)
                      THEN ToString(item.temperature) ELSE "None")
                ELSE "N/A">>
         ELSE <<"Dict", "with", ToString(Cardinality(Keys(item))), "fields">>
    ELSE <<item.py_type>>

RECURSIVE format_items(_)
format_items(its) ==
    IF its = <<>> THEN <<>>
    ELSE format_item(Head(its)) \o format_items(Tail(its))

\* _format_data
format_data(data) ==
    IF IsList(data)
    THEN IF Len(data.items) = 0 THEN <<"Empty", "list">>
         ELSE IF Len(data.items) <= 3
         THEN <<ToString(Len(data.items)), "items:">> \o format_items(data.items)
         ELSE <<ToString(Len(data.items)), "items", "(showing", "first", "3):">>
                  \o format_items(SubSeq(data.items, 1, 3))
    ELSE format_item(data)

\* _format_for_display, the lines added for one result
result_lines(result) ==
    LET status == Get(result, "status", "unknown")
    IN  << <<"Step", ToString(Get(result, "step_number", 0)),
             IF status = "success" THEN "SUCCESS"
             ELSE IF status = "failed" THEN "FAILED" ELSE status>> >>
        \o (IF status = "success"
            THEN IF Truthy(Get(result, "data", None))
                 THEN << <<"Data:">> \o format_data(result.data) >>
                 ELSE <<>>
            ELSE << <<"Error:">>
                       \o Get(result, "error", Str(<<"Unknown", "error">>)).text >>)
        \o << <<>> >>

RECURSIVE results_lines(_)
results_lines(rs) ==
    IF rs = <<>> THEN <<>>
    ELSE result_lines(Head(rs)) \o results_lines(Tail(rs))

\* _format_for_display: the report, one text per line
format_for_display(er) ==
    << <<"====">>, <<"EXECUTION", "RESULTS">>, <<"====">>,
       IF Get(er, "success", FALSE)
       THEN <<"Overall", "Status:", "SUCCESS">>
       ELSE <<"Overall", "Status:", "FAILED">>,
       <<"Steps", "Completed:", ToString(Get(er, "steps_completed", 0))>>,
       <<"Steps", "Failed:", ToString(Get(er, "steps_failed", 0))>>,
       <<>> >>
    \o results_lines(Get(er, "results", <<>>))
    \o << <<"====">> >>

\* confidence scores are counted in hundredths
fallback_confidence == 50

fallback_summary_plain ==
    <<"Verification", "completed", "with", "basic", "formatting">>

fallback_summary ==
    <<"Verification", "completed", "with", "basic", "formatting", "(LLM",
      "unavailable)">>

VerificationResult(complete, correct, confidence, iss, formatted, summary, recs) ==
    [py_type |-> "dict", is_complete |-> complete, is_correct |-> correct,
     confidence_score |-> confidence, issues |-> iss,
     formatted_output |-> formatted, summary |-> summary,
     recommendations |-> recs]

\* correct whenever the execution succeeded
is_correct_when_successful(iss, er) == Get(er, "success", FALSE)

\* verify_results: correctness, from the issues and the execution's success
is_correct(iss, er) == Len(iss) = 0 /\ Get(er, "success", FALSE)

\* the except branch starting again from an empty issues list
fallback_result_without_issues(er, complete, iss) ==
    VerificationResult(complete,
                       is_correct(<<>>, er),
                       fallback_confidence, <<>>, format_for_display(er),
                       fallback_summary, <<>>)

\* verify_results, the except branch of the quality pass
fallback_result(er, complete, iss) ==
    VerificationResult(complete,
                       is_correct(iss, er),
                       fallback_confidence, iss, format_for_display(er),
                       fallback_summary, <<>>)

\* the issues of the quality pass taking the place of the collected ones
verification_of_llm_issues_only(er, complete, iss, out) ==
    IF out.kind = "raise" \/ ~IsDict(out.value)
    THEN fallback_result(er, complete, iss)
    ELSE LET llm == out.value
             llm_issues == Get(llm, "issues", PyList(<<>>))
         IN  IF ~IsList(llm_issues)
             THEN fallback_result(er, complete, iss)
             ELSE LET all == llm_issues.items
                  IN  VerificationResult(
                          complete,
                          is_correct(all, er),
                          Get(llm, "confidence_score", fallback_confidence),
                          all,
                          Get(llm, "formatted_output", <<>>),
                          Get(llm, "summary", <<>>),
                          Get(llm, "recommendations", PyList(<<>>)).items)

\* verify_results from the quality pass on, given what the gateway did
verification_of(er, complete, iss, out) ==
    IF out.kind = "raise" \/ ~IsDict(out.value)
    THEN fallback_result(er, complete, iss)
    ELSE LET llm == out.value
             llm_issues == Get(llm, "issues", PyList(<<>>))
         IN  IF ~IsList(llm_issues)
             THEN fallback_result(er, complete, iss)
             ELSE LET all == iss \o llm_issues.items
                  IN  VerificationResult(
                          complete,
                          is_correct(all, er),
                          Get(llm, "confidence_score", fallback_confidence),
                          all,
                          Get(llm, "formatted_output", <<>>),
                          Get(llm, "summary", <<>>),
                          Get(llm, "recommendations", PyList(<<>>)).items)

(* inputs *)

\* readings on both sides of the two limits of the anomaly scan
TemperatureSamples == {-101, -100, 20, 60, 61, 85}

WeatherData(t) == [py_type |-> "dict", city |-> "Paris", temperature |-> t]

\* the ExecutionResult execute_plan builds from the given step results
SampleExecution(rs) ==
    [py_type |-> "dict",
     success |-> (\E i \in DOMAIN rs : rs[i].status = "success"),
     steps_completed |->
         Cardinality({ i \in DOMAIN rs : rs[i].status = "success" }),
     steps_failed |->
         Cardinality({ i \in DOMAIN rs : rs[i].status # "success" }),
     results |-> rs,
     execution_log |->
         [i \in DOMAIN rs |->
             log_entry(rs[i].step_number, rs[i].status, rs[i].data,
                       IF rs[i].status = "success" THEN <<>>
                       ELSE rs[i].error.text)]]

\* execution results a caller may hand to verify_results
SampleExecutionResults ==
    { SampleExecution(<<StepResult(1, "success", WeatherData(t), None, 0)>>) :
          t \in TemperatureSamples \cup {18} }
    \cup
    { SampleExecution(<<StepResult(1, "failed", None,
                                   Str(<<"City", "not", "found">>), 0)>>),
      SampleExecution(<<StepResult(1, "failed", WeatherData(85),
                                   Str(<<"City", "not", "found">>), 0)>>),
      SampleExecution(<<StepResult(1, "success", PyList(<<>>), None, 0)>>),
      SampleExecution(<<StepResult(1, "success", WeatherData(20), None, 0),
                        StepResult(2, "failed", None,
                                   Str(<<"City", "not", "found">>), 0)>>) }

VerifyPlans ==
    { None, EmptyDict, PyList(<<>>),
      BasePlan("search", PyList(<<ValidStep(1)>>), EmptyDict),
      BasePlan("compare", PyList(<<ValidStep(1), ValidStep(2)>>), EmptyDict) }

VerifyExecutions == { None, EmptyDict, PyList(<<>>) } \cup SampleExecutionResults

\* what the quality pass may get back as parsed JSON
LLMVerifications ==
    { [py_type |-> "dict", formatted_output |-> << <<"Weather", "report">> >>,
       summary |-> <<"All", "good">>, issues |-> PyList(<<>>),
       recommendations |-> PyList(<<>>), confidence_score |-> 95],
      [py_type |-> "dict", formatted_output |-> << <<"Weather", "report">> >>,
       summary |-> <<"Doubtful">>,
       issues |-> PyList(<< <<"Data", "looks", "stale">> >>),
       recommendations |-> PyList(<< <<"Run", "again">> >>),
       confidence_score |-> 40],
      [py_type |-> "dict", summary |-> <<"No", "issues", "key">>,
       issues |-> None],
      [py_type |-> "dict", summary |-> <<"Very", "sure">>,
       confidence_score |-> 150],
      EmptyDict,
      PyList(<<>>) }

VerifierGatewayOutcomes ==
    { Returned(v) : v \in LLMVerifications } \cup { Raised(e) : e \in GatewayErrors }

(* verify_results *)

\* verify_results up to the gateway call of the quality pass
verify_results(p, er) ==
    /\ v_plan' = p
    /\ v_exec' = er
    /\ IF invalid_argument(p)
       THEN /\ verify_ret' = Raised(Exc("ValueError",
                   <<"Plan", "must", "be", "a", "non-empty", "dictionary">>))
            /\ pc' = "done"
            /\ UNCHANGED <<is_complete, issues, gateway_calls>>
       ELSE IF invalid_argument(er)
       THEN /\ verify_ret' = Raised(Exc("ValueError",
                   <<"Execution", "result", "must", "be", "a", "non-empty",
                     "dictionary">>))
            /\ pc' = "done"
            /\ UNCHANGED <<is_complete, issues, gateway_calls>>
       ELSE IF anomaly_check_raises(er)
       THEN /\ is_complete' = check_completeness(p, er)
            /\ verify_ret' = Raised(Exc("TypeError",
                   <<"'<'", "not", "supported", "between", "instances", "of",
                     "'str'", "and", "'int'">>))
            /\ pc' = "done"
            /\ UNCHANGED <<issues, gateway_calls>>
       ELSE /\ is_complete' = check_completeness(p, er)
            /\ issues' = collected_issues(p, er)
            /\ gateway_calls' = Append(gateway_calls,
                   [caller |-> "verifier",
                    method |-> "generate_json_completion",
                    max_tokens |-> 1500])
            /\ verify_ret' = NoRet
            /\ pc' = "verifying"

\* a caller hands a plan and an execution result to
\* VerifierAgent.verify_results
VerifyResults(p, er) ==
    /\ pc = "idle"
    /\ verify_results(p, er)
    /\ UNCHANGED <<exec_vars_but_pc, planner_vars, gateway_outs, pipeline_vars>>
    /\ UNCHANGED <<llm_vars, cmp_vars, wiki_vars>>

\* verify_results from the answer of the quality pass to the return
VerifierGatewayReturns(out) ==
    /\ pc = "verifying"
    /\ gateway_outs' = Append(gateway_outs, out)
    /\ verify_ret' = Returned(verification_of(v_exec, is_complete, issues, out))
    /\ issues' = verify_ret'.value.issues
    /\ pc' = "done"
    /\ UNCHANGED <<exec_vars_but_pc, planner_vars, gateway_calls, v_plan,
                   v_exec, is_complete, pipeline_vars>>
    /\ UNCHANGED <<llm_vars, cmp_vars, wiki_vars>>

-----------------------------------------------------------------------------
(* AIOperationsAssistant.process_query *)

LongWord == "<word of 1001 letters>"

\* len() of one token, in characters
TokenChars(tok) == IF tok = LongWord THEN 1001 ELSE 1

RECURSIVE TextChars(_)
TextChars(text) ==
    IF text = <<>> THEN 0 ELSE TokenChars(Head(text)) + TextChars(Tail(text))

\* any(c.isalpha() for c in tok)
HasAlpha(tok) == tok \notin {" ", "12345", "?"}

\* text[:n], a token cut in two being left as "<cut>"
RECURSIVE FirstChars(_, _)
FirstChars(text, n) ==
    IF text = <<>> \/ n = 0 THEN <<>>
    ELSE IF TokenChars(Head(text)) <= n
    THEN <<Head(text)>> \o FirstChars(Tail(text), n - TokenChars(Head(text)))
    ELSE <<"<cut>">>

max_query_length == 1000

PipelineQueries ==
    { <<>>, <<" ">>, <<" ", "weather", " ">>, <<"12345", " ", "?">>,
      <<LongWord>> }

\* the result dictionary starting from success
InitialResultOptimistic(user_query) ==
    [py_type |-> "dict", query |-> user_query, plan |-> None,
     execution |-> None, verification |-> None, success |-> TRUE]

\* the result dictionary process_query starts from
InitialResult(user_query) ==
    [py_type |-> "dict", query |-> user_query, plan |-> None,
     execution |-> None, verification |-> None, success |-> FALSE]

\* process_query: the message for a planning error that is not a ValueError
planning_error_message(error_msg) ==
    IF Contains(Lower(error_msg), <<"rate", "limit">>)
           \/ Contains(Lower(error_msg), <<"quota">>)
    THEN <<"API", "quota", "exceeded.">>
    ELSE IF Contains(Lower(error_msg), <<"api", "key">>)
           \/ Contains(Lower(error_msg), <<"authentication">>)
    THEN <<"API", "authentication", "failed.">>
    ELSE IF Contains(Lower(error_msg), <<"network">>)
           \/ Contains(Lower(error_msg), <<"connection">>)
    THEN <<"Network", "connection", "error.">>
    ELSE <<"Planning", "failed:">> \o error_msg

\* process_query: the message for an execution error that is not a ValueError
execution_error_message(error_msg) ==
    IF Contains(Lower(error_msg), <<"not", "found">>)
           \/ Contains(error_msg, <<"404">>)
    THEN <<"The", "requested", "information", "was", "not", "found.">>
    ELSE IF Contains(Lower(error_msg), <<"rate", "limit">>)
           \/ Contains(error_msg, <<"429">>)
    THEN <<"API", "rate", "limit", "exceeded.">>
    ELSE IF Contains(Lower(error_msg), <<"timeout">>)
    THEN <<"Request", "timed", "out.">>
    ELSE <<"Execution", "failed:">> \o error_msg

\* process_query: the verification put in place of a failed verify_results
substitute_verification(e) ==
    VerificationResult(FALSE, FALSE, 0,
                       << <<"Verification", "failed:">> \o e.text >>,
                       << <<"Verification", "unavailable">> >>,
                       <<"Verification", "failed">>, <<>>)

\* process_query up to the call of create_plan
ProcessQuery(q) ==
    /\ pc = "idle"
    /\ tools = KnownTools
    /\ IF q = <<>> \/ strip(q) = <<>>
       THEN /\ pq_query' = q
            /\ pq_result' = With(InitialResult(<<>>), "error",
                   <<"Please", "enter", "a", "query.">>)
            /\ stage' = "finished"
            /\ pc' = "done"
            /\ UNCHANGED <<query, planner_ret, is_comparison, gateway_calls>>
       ELSE IF TextChars(strip(q)) > max_query_length
       THEN /\ pq_query' = strip(q)
            /\ pq_result' = With(
                   InitialResult(FirstChars(strip(q), 100) \o <<"...">>),
                   "error", <<"Your", "query", "is", "too", "long.">>)
            /\ stage' = "finished"
            /\ pc' = "done"
            /\ UNCHANGED <<query, planner_ret, is_comparison, gateway_calls>>
       ELSE IF \A i \in DOMAIN strip(q) : ~HasAlpha(strip(q)[i])
       THEN /\ pq_query' = strip(q)
            /\ pq_result' = With(InitialResult(strip(q)), "error",
                   <<"Please", "enter", "a", "meaningful", "question">>)
            /\ stage' = "finished"
            /\ pc' = "done"
            /\ UNCHANGED <<query, planner_ret, is_comparison, gateway_calls>>
       ELSE /\ pq_query' = strip(q)
            /\ pq_result' = InitialResult(strip(q))
            /\ stage' = "planning"
            /\ create_plan(strip(q))
    /\ UNCHANGED <<exec_vars_but_pc, gateway_outs, verifier_vars>>
    /\ UNCHANGED <<llm_vars, cmp_vars, wiki_vars>>

\* the executor called whatever the planner did
AfterPlanningRegardless ==
    /\ stage = "planning"
    /\ pc = "done"
    /\ pq_result' =
          IF planner_ret.kind = "raise"
          THEN With(pq_result, "error",
                    <<"Planning", "failed:">> \o planner_ret.exc.text)
          ELSE With(pq_result, "plan", planner_ret.value)
    /\ stage' = "execution"
    /\ execute_plan(IF planner_ret.kind = "raise" THEN None
                    ELSE planner_ret.value)
    /\ UNCHANGED <<invocations, sleeps, tool_calls, attempted, prev_ret>>
    /\ UNCHANGED <<planner_vars, gateway_vars, verifier_vars, pq_query>>
    /\ UNCHANGED <<llm_vars, cmp_vars, wiki_vars>>

\* process_query from the return of create_plan to the call of execute_plan
AfterPlanning ==
    /\ stage = "planning"
    /\ pc = "done"
    /\ IF planner_ret.kind = "raise"
       THEN /\ pq_result' = With(pq_result, "error",
                   IF planner_ret.exc.type = "ValueError"
                   THEN <<"Planning", "failed:">> \o planner_ret.exc.text
                            \o <<".", "Please", "try", "a", "simpler", "or",
                                   "clearer", "query.">>
                   ELSE planning_error_message(planner_ret.exc.text))
            /\ stage' = "finished"
            /\ UNCHANGED exec_vars
       ELSE /\ pq_result' = With(pq_result, "plan", planner_ret.value)
            /\ stage' = "execution"
            /\ execute_plan(planner_ret.value)
            /\ UNCHANGED <<invocations, sleeps, tool_calls, attempted, prev_ret>>
    /\ UNCHANGED <<planner_vars, gateway_vars, verifier_vars, pq_query>>
    /\ UNCHANGED <<llm_vars, cmp_vars, wiki_vars>>

\* process_query from the return of execute_plan to the call of
\* verify_results
AfterExecution ==
    /\ stage = "execution"
    /\ pc = "done"
    /\ IF exec_ret.kind = "raise"
       THEN /\ pq_result' = With(pq_result, "error",
                   IF exec_ret.exc.type = "ValueError"
                   THEN <<"Execution", "failed:", "Invalid", "request",
                          "parameters.">> \o exec_ret.exc.text
                   ELSE execution_error_message(exec_ret.exc.text))
            /\ stage' = "finished"
            /\ UNCHANGED <<pc, verifier_vars, gateway_calls>>
       ELSE /\ pq_result' = With(pq_result, "execution", exec_ret.value)
            /\ stage' = "verification"
            /\ verify_results(plan, exec_ret.value)
    /\ UNCHANGED <<exec_vars_but_pc, planner_vars, gateway_outs, pq_query>>
    /\ UNCHANGED <<llm_vars, cmp_vars, wiki_vars>>

\* process_query from the return of verify_results to its own return; the
\* except branch of stage 3 leaves the local verification unbound, so the
\* success expression raises once execution.success is true and the outer
\* handler records the error
AfterVerification ==
    /\ stage = "verification"
    /\ pc = "done"
    /\ pq_result' =
          IF verify_ret.kind = "raise"
          THEN LET r == With(pq_result, "verification",
                             substitute_verification(verify_ret.exc))
               IN  IF Get(exec_ret.value, "success", FALSE)
                   THEN With(r, "error",
                            <<"Unexpected", "error:", "local", "variable",
                              "verification", "referenced", "before",
                              "assignment">>)
                   ELSE r
          ELSE With(With(pq_result, "verification", verify_ret.value),
                    "success",
                    Get(exec_ret.value, "success", FALSE)
                        /\ Get(verify_ret.value, "is_complete", FALSE))
    /\ stage' = "finished"
    /\ UNCHANGED <<exec_vars, planner_vars, gateway_vars, verifier_vars,
                   pq_query>>
    /\ UNCHANGED <<llm_vars, cmp_vars, wiki_vars>>

-----------------------------------------------------------------------------

(***************************************************************************)
(* LLMClient *)
(***************************************************************************)
MaxLLMRetries == 3    \* largest max_retries offered with every provider outcome

default_max_retries == 3
backoff_cap == 60

\* A configuration with enough attempts for the backoff to reach its cap.
LongRetries == MaxLLMRetries + 5

Providers == {"openai", "gemini"}
RetryCounts == (0..MaxLLMRetries) \cup {default_max_retries, LongRetries}

UserMessage == [py_type |-> "dict", role |-> "user", content |-> <<"Hello">>]
MessageLists == { <<>>, <<UserMessage>> }

\* openai.APIStatusError and its subclasses carry a status_code.
APIStatusError(type, status_code, text) ==
    [type |-> type, status_code |-> status_code, text |-> text]

RateLimitErrorTypes == {"RateLimitError"}
APIConnectionErrorTypes == {"APIConnectionError", "APITimeoutError"}
APIErrorTypes ==
    RateLimitErrorTypes \cup APIConnectionErrorTypes
    \cup {"APIError", "APIStatusError", "InternalServerError",
          "BadRequestError", "AuthenticationError"}

RateLimited ==
    APIStatusError("RateLimitError", 429, <<"Rate", "limit", "exceeded">>)

OpenAIErrors ==
    { RateLimited,
      Exc("APIConnectionError", <<"Connection", "error.">>),
      APIStatusError("InternalServerError", 500,
                     <<"Internal", "server", "error">>),
      APIStatusError("BadRequestError", 400, <<"Invalid", "request">>),
      APIStatusError("AuthenticationError", 401, <<"Incorrect", "API", "key">>),
      Exc("APIError", <<"Stream", "ended", "early">>),
      Exc("KeyError", <<"'choices'">>) }

GeminiResourceExhausted ==
    Exc("ResourceExhausted", <<"429", "Resource", "exhausted">>)

GeminiErrors ==
    { GeminiResourceExhausted,
      Exc("ServiceUnavailable", <<"503", "Service", "unavailable">>),
      Exc("InternalServerError", <<"500", "Internal", "error">>),
      Exc("InvalidArgument", <<"400", "Invalid", "argument">>),
      Exc("PermissionDenied", <<"403", "Permission", "denied">>),
      Exc("ConnectionError", <<"Connection", "reset">>) }

Completion == <<"{", "}">>

\* Completion texts the provider can deliver; a JSON string literal is one
\* token.
Completions ==
    { Completion,
      <<"{", "\"summary\"", ":", "\"ok\"", "}">>,
      <<"{", "\"summary\"", ":", "\"ok\"", ",", "\"confidence_score\"", ":",
        "1", "}">>,
      <<"[", "]">>,
      <<"null">>,
      <<>>,
      <<"Here", "is", "the", "plan:", "{", "}">>,
      <<"{", "}", "Done.">>,
      <<"{", "\"summary\"", ":">>,
      <<"{", "\"summary\"", "\"ok\"", "}">>,
      <<"{", "summary", ":", "\"ok\"", "}">> }

\* What the provider call of one attempt can do.  In a long configuration
\* only the rate-limit failure is offered.
ProviderOutcomes(provider, retries) ==
    IF retries > MaxLLMRetries /\ retries # default_max_retries
    THEN { Raised(IF provider = "openai" THEN RateLimited
                  ELSE GeminiResourceExhausted) }
    ELSE { Returned(text) : text \in Completions }
         \cup { Raised(e) : e \in IF provider = "openai" THEN OpenAIErrors
                                  ELSE GeminiErrors }

RECURSIVE Pow2(_)
Pow2(n) == IF n = 0 THEN 1 ELSE 2 * Pow2(n - 1)

calculate_backoff(attempt_index) ==
    IF Pow2(attempt_index) < backoff_cap THEN Pow2(attempt_index) ELSE backoff_cap

retryable_keywords ==
    { <<"rate", "limit">>, <<"quota">>, <<"429">>, <<"503">>, <<"timeout">>,
      <<"connection">> }

is_retryable_any(e) == TRUE

is_retryable(e) ==
    \E keyword \in retryable_keywords : Contains(Lower(e.text), keyword)

\* The typed branch of the handler: "retry", "raise", or "generic" when the
\* handler falls through to the keyword test.
openai_handling(provider, e) ==
    IF provider # "openai" THEN "generic"
    ELSE IF e.type \in RateLimitErrorTypes THEN "retry"
    ELSE IF e.type \in APIConnectionErrorTypes THEN "retry"
    ELSE IF e.type \in APIErrorTypes
         THEN IF "status_code" \in DOMAIN e
                 /\ 500 <= e.status_code /\ e.status_code < 600
              THEN "retry" ELSE "raise"
    ELSE "generic"

handling(provider, retries, attempt_index, e) ==
    IF openai_handling(provider, e) # "generic"
    THEN openai_handling(provider, e)
    ELSE IF is_retryable(e) /\ attempt_index < retries - 1 THEN "retry"
    ELSE "raise"

exhausted_error(retries, last_error) ==
    Exc("Exception",
        <<"Failed", "after", ToString(retries), "attempts.", "Last", "error:">>
        \o (IF last_error.type = "None" THEN <<"None">> ELSE last_error.text))

\* json.loads on the texts of the model.  The result is [ok, value] or
\* [ok, msg] with the text of the JSONDecodeError.
StringLiterals ==
    ("\"summary\"" :> "summary") @@ ("\"ok\"" :> "ok")
    @@ ("\"confidence_score\"" :> "confidence_score")

NumberLiterals == ("1" :> 1) @@ ("0" :> 0)

Parsed(v) == [ok |-> TRUE, value |-> v]
JSONDecodeError(msg) == [ok |-> FALSE, msg |-> msg]

IsScalarToken(tok) ==
    \/ tok \in DOMAIN StringLiterals
    \/ tok \in DOMAIN NumberLiterals
    \/ tok = "null"

ScalarOf(tok) ==
    IF tok \in DOMAIN StringLiterals THEN Str(<<StringLiterals[tok]>>)
    ELSE IF tok \in DOMAIN NumberLiterals THEN NumberLiterals[tok]
    ELSE None

\* What follows a complete value ending at token i - 1.
end_of_document(text, i, v) ==
    IF i > Len(text) THEN Parsed(v) ELSE JSONDecodeError(<<"Extra", "data">>)

\* The members of an object, from token i on; obj holds the members read.
RECURSIVE parse_members(_, _, _)
parse_members(text, i, obj) ==
    IF i > Len(text) \/ text[i] \notin DOMAIN StringLiterals
    THEN JSONDecodeError(<<"Expecting", "property", "name", "enclosed", "in",
                           "double", "quotes">>)
    ELSE IF i + 1 > Len(text) \/ text[i + 1] # ":"
    THEN JSONDecodeError(<<"Expecting", "':'", "delimiter">>)
    ELSE IF i + 2 > Len(text) \/ ~IsScalarToken(text[i + 2])
    THEN JSONDecodeError(<<"Expecting", "value">>)
    ELSE LET member == StringLiterals[text[i]] :> ScalarOf(text[i + 2])
             more == member @@ obj
         IN  IF i + 3 <= Len(text) /\ text[i + 3] = "}"
             THEN end_of_document(text, i + 4, more)
             ELSE IF i + 3 <= Len(text) /\ text[i + 3] = ","
             THEN parse_members(text, i + 4, more)
             ELSE JSONDecodeError(<<"Expecting", "','", "delimiter">>)

json_loads_lenient(text) ==
    IF Len(text) >= 2 /\ text[1] = "{" /\ text[2] = "}" THEN Parsed(EmptyDict)
    ELSE IF Len(text) >= 1 /\ text[1] = "{"
    THEN parse_members(text, 2, EmptyDict)
    ELSE Parsed(None)

json_loads(text) ==
    IF Len(text) = 0 THEN JSONDecodeError(<<"Expecting", "value">>)
    ELSE IF text[1] = "{"
    THEN IF Len(text) >= 2 /\ text[2] = "}"
         THEN end_of_document(text, 3, EmptyDict)
         ELSE parse_members(text, 2, EmptyDict)
    ELSE IF text[1] = "["
    THEN IF Len(text) >= 2 /\ text[2] = "]"
         THEN end_of_document(text, 3, PyList(<<>>))
         ELSE JSONDecodeError(<<"Expecting", "value">>)
    ELSE IF text[1] = "null" THEN end_of_document(text, 2, None)
    ELSE JSONDecodeError(<<"Expecting", "value">>)

\* What the call gives back for a delivered completion text:
\* generate_completion the text, generate_json_completion the parsed value.
completion_result(response_format, text) ==
    IF response_format # "json_object" THEN Returned(text)
    ELSE IF json_loads(text).ok THEN Returned(json_loads(text).value)
    ELSE Raised(Exc("ValueError",
                    <<"Failed", "to", "parse", "JSON", "response:">>
                    \o json_loads(text).msg))

\* generate_completion up to the retry loop.
generate_completion(provider, retries, messages, response_format) ==
    /\ llm_provider' = provider
    /\ llm_max_retries' = retries
    /\ llm_messages' = messages
    /\ llm_response_format' = response_format
    /\ llm_attempt' = 0
    /\ llm_last_error' = NoException
    /\ llm_invocations' = <<>>
    /\ llm_sleeps' = <<>>
    /\ IF Len(messages) = 0
       THEN /\ llm_ret' = Raised(Exc("ValueError",
                     <<"Messages", "list", "cannot", "be", "empty">>))
            /\ pc' = "done"
       ELSE /\ llm_ret' = NoRet
            /\ pc' = "llm"
    /\ UNCHANGED <<exec_vars_but_pc, planner_vars, gateway_vars, verifier_vars,
                   pipeline_vars, cmp_vars, wiki_vars>>

GenerateCompletion(provider, retries, messages) ==
    /\ pc = "idle"
    /\ generate_completion(provider, retries, messages, "none")

\* generate_json_completion: the same call in JSON mode; the completion is
\* parsed where it is delivered.
GenerateJsonCompletion(provider, retries, messages) ==
    /\ pc = "idle"
    /\ generate_completion(provider, retries, messages, "json_object")

\* One iteration of the retry loop: the provider call and its handler.
LLMAttempt ==
    /\ pc = "llm"
    /\ llm_attempt < llm_max_retries
    /\ \E out \in ProviderOutcomes(llm_provider, llm_max_retries) :
         /\ llm_invocations' = Append(llm_invocations, out)
         /\ IF out.kind = "return"
            THEN /\ llm_ret' = completion_result(llm_response_format, out.value)
                 /\ pc' = "done"
                 /\ UNCHANGED <<llm_attempt, llm_last_error, llm_sleeps>>
            ELSE IF handling(llm_provider, llm_max_retries, llm_attempt,
                             out.exc) = "retry"
            THEN /\ llm_last_error' = out.exc
                 /\ llm_sleeps' =
                        Append(llm_sleeps, calculate_backoff(llm_attempt))
                 /\ llm_attempt' = llm_attempt + 1
                 /\ UNCHANGED <<llm_ret, pc>>
            ELSE /\ llm_ret' = Raised(out.exc)
                 /\ pc' = "done"
                 /\ UNCHANGED <<llm_attempt, llm_last_error, llm_sleeps>>
    /\ UNCHANGED <<llm_provider, llm_max_retries, llm_messages,
                   llm_response_format>>
    /\ UNCHANGED <<exec_vars_but_pc, planner_vars, gateway_vars, verifier_vars,
                   pipeline_vars, cmp_vars, wiki_vars>>

\* The loop is over: all retries exhausted.
LLMExhausted ==
    /\ pc = "llm"
    /\ llm_attempt >= llm_max_retries
    /\ llm_ret' = Raised(exhausted_error(llm_max_retries, llm_last_error))
    /\ pc' = "done"
    /\ UNCHANGED <<llm_provider, llm_max_retries, llm_messages,
                   llm_response_format, llm_attempt,
                   llm_last_error, llm_invocations, llm_sleeps>>
    /\ UNCHANGED <<exec_vars_but_pc, planner_vars, gateway_vars, verifier_vars,
                   pipeline_vars, cmp_vars, wiki_vars>>

(***************************************************************************)
(* Tools: the compare operations *)
(***************************************************************************)
MaxItems == 2         \* longest list handed to a compare operation

Cities == {"London", "Atlantis"}
Topics == {"Python", "Mercury"}
\* repository queries, "/" being a token of its own
RepoQueries ==
    { <<"pallets", "/", "flask">>, <<"web", "framework">>,
      <<"a", "/", "b", "/", "c">> }
UnitSystems == {"metric", "imperial"}

\* What get_summary does for one topic.
article_summary(topic) ==
    [py_type |-> "dict", title |-> topic, summary |-> <<"About", topic>>]

SummaryLookups(topic) ==
    { Returned(article_summary(topic)),
      Raised(Exc("ValueError", <<"Article", topic, "not", "found.">>)),
      Raised(Exc("ConnectionError", <<"Connection", "timeout">>)) }

\* What get_repository_details and search_repositories do for one repo_query.
repository(full_name) ==
    [py_type |-> "dict", name |-> full_name, full_name |-> full_name,
     stars |-> 100]

DetailsLookups(repo_query) ==
    { Returned(repository(repo_query)),
      Raised(HTTPError(404, <<"404", "Not", "Found">>)),
      Raised(HTTPError(403, <<"403", "rate", "limit", "exceeded">>)) }

SearchLookups(repo_query) ==
    { Returned(PyList(<<repository(<<"top", "/", "hit">>)>>)),
      Returned(PyList(<<>>)),
      Raised(Exc("ConnectionError", <<"Connection", "timeout">>)) }

\* get_repository_details is asked only for an "owner/repo" query
RepoLookups(repo_query) ==
    { [details |-> d, search |-> s] :
        d \in IF Cardinality({ i \in DOMAIN repo_query :
                                   repo_query[i] = "/" }) = 1
               THEN DetailsLookups(repo_query) ELSE { NoRet },
        s \in SearchLookups(repo_query) }

\* The items a compare operation is given, each with the outcome of its
\* lookup, and the lists of at most n of them.
WeatherItems ==
    UNION { { [item |-> city, lookup |-> l] : l \in WeatherLookups(city) } :
              city \in Cities }

TopicItems ==
    UNION { { [item |-> topic, lookup |-> l] : l \in SummaryLookups(topic) } :
              topic \in Topics }

RepoItems ==
    UNION { { [item |-> q, lookup |-> l] : l \in RepoLookups(q) } :
              q \in RepoQueries }

ItemLists(items, n) == UNION { [1..k -> items] : k \in 0..n }

\* compare_topics: the entry appended for one topic.
topic_placeholder_without_error(topic, error) ==
    [py_type |-> "dict", title |-> topic, summary |-> None, url |-> None]

topic_placeholder(topic, error) ==
    [py_type |-> "dict", title |-> topic, summary |-> None, url |-> None,
     error |-> error]

topic_entry(topic, lookup) ==
    IF lookup.kind = "return" THEN lookup.value
    ELSE IF lookup.exc.type = "ValueError"
    THEN topic_placeholder(topic, lookup.exc.text)
    ELSE topic_placeholder(topic,
                           <<"Unexpected", "error:">> \o lookup.exc.text)

\* compare_repositories: the entry appended for one repo_query.
repository_placeholder(repo_query, error) ==
    [py_type |-> "dict", name |-> repo_query, error |-> error,
     full_name |-> repo_query, description |-> None, stars |-> 0, url |-> None]

is_owner_repo(repo_query) ==
    Cardinality({ i \in DOMAIN repo_query : repo_query[i] = "/" }) = 1

search_entry(repo_query, search) ==
    IF search.kind = "raise"
    THEN repository_placeholder(repo_query, search.exc.text)
    ELSE IF Len(search.value.items) > 0 THEN search.value.items[1]
    ELSE repository_placeholder(repo_query, <<"No", "results", "found">>)

repository_entry(repo_query, lookup) ==
    IF ~is_owner_repo(repo_query) THEN search_entry(repo_query, lookup.search)
    ELSE IF lookup.details.kind = "return" THEN lookup.details.value
    ELSE IF lookup.details.exc.type = "HTTPError"
            /\ lookup.details.exc.status_code = 404
    THEN search_entry(repo_query, lookup.search)
    ELSE repository_placeholder(repo_query, lookup.details.exc.text)

compare_ends(tool, items, units, entries) ==
    /\ cmp_tool' = tool
    /\ cmp_items' = items
    /\ cmp_units' = units
    /\ cmp_ret' = Returned(PyList(entries))
    /\ pc' = "done"
    /\ UNCHANGED <<exec_vars_but_pc, planner_vars, gateway_vars, verifier_vars,
                   pipeline_vars, llm_vars, wiki_vars>>

CompareWeather(cities, units) ==
    /\ pc = "idle"
    /\ compare_ends("weather", cities, units,
        [i \in DOMAIN cities |->
            weather_entry(cities[i].item, units, cities[i].lookup)])

CompareTopics(topics) ==
    /\ pc = "idle"
    /\ compare_ends("wikipedia", topics, "none",
        [i \in DOMAIN topics |-> topic_entry(topics[i].item, topics[i].lookup)])

CompareRepositories(repo_queries) ==
    /\ pc = "idle"
    /\ compare_ends("github", repo_queries, "none",
        [i \in DOMAIN repo_queries |->
            repository_entry(repo_queries[i].item, repo_queries[i].lookup)])

-----------------------------------------------------------------------------
(* WikipediaTool.get_summary *)

MaxDepth == 3         \* deepest stack of get_summary calls followed

\* topics handed to get_summary; "" and " " are blank
WikiTopics == {"", " ", "Mercury", "Mercury (planet)"}

\* titles the search backend may list
SearchTitles == {"Mercury", "Mercury (planet)", "Mercury (disambiguation)"}

\* result.endswith("(disambiguation)")
is_disambiguation_title(title) == title = "Mercury (disambiguation)"

standard_page(title) ==
    [py_type |-> "dict", type |-> "standard", title |-> title,
     extract |-> <<"About", title>>]

disambiguation_page(title) ==
    [py_type |-> "dict", type |-> "disambiguation", title |-> title,
     extract |-> <<title, "may", "refer", "to">>]

\* what the backend may answer to /page/summary/<topic>, as _make_request
\* hands it on
SummaryResponses ==
    { Returned(page) : page \in { standard_page("Mercury"),
                                  standard_page("Mercury (planet)"),
                                  disambiguation_page("Mercury") } }
    \cup { Raised(HTTPError(404, <<"404", "Not", "Found">>)),
           Raised(HTTPError(503, <<"503", "Service", "Unavailable">>)),
           Raised(Exc("ConnectionError", <<"Connection", "timeout">>)) }

\* what search_articles may do: a list of titles, or the request fails
SearchOutcomes ==
    { Returned(titles) :
        titles \in UNION { [1..n -> SearchTitles] : n \in 0..2 } }
    \cup { Raised(HTTPError(404, <<"404", "Not", "Found">>)),
           Raised(Exc("ConnectionError", <<"Connection", "timeout">>)) }

\* _parse_summary_data
parse_summary_data(raw_data) ==
    [py_type |-> "dict", title |-> raw_data.title,
     summary |-> raw_data.extract, type |-> raw_data.type]

\* get_summary: the dict returned for a disambiguation page left as it is
disambiguation_info(response) ==
    [py_type |-> "dict", title |-> response.title,
     summary |-> response.extract, description |-> "Disambiguation page",
     type |-> "disambiguation"]

\* _handle_disambiguation: the first result that does not end with
\* "(disambiguation)", None without one
first_alternative(titles) ==
    LET hits == { i \in DOMAIN titles : ~is_disambiguation_title(titles[i]) }
    IN  IF hits = {} THEN None
        ELSE Str(<<titles[CHOOSE i \in hits : \A j \in hits : i <= j]>>)

CurrentTopic == wiki_stack[Len(wiki_stack)]

\* an exception leaves the innermost get_summary call: a ValueError and
\* anything that is not a requests exception pass through every caller, an
\* HTTPError with status 404 is handled by the calling get_summary as its
\* own, any other requests exception is raised again
wiki_raise(e) ==
    IF /\ Len(wiki_stack) > 1
       /\ e.type = "HTTPError"
       /\ e.status_code = 404
    THEN /\ wiki_stack' = SubSeq(wiki_stack, 1, Len(wiki_stack) - 1)
         /\ pc' = "wiki_not_found"
         /\ wiki_ret' = wiki_ret
    ELSE /\ wiki_stack' = wiki_stack
         /\ pc' = "done"
         /\ wiki_ret' = Raised(e)

\* a caller hands a topic to WikipediaTool.get_summary
GetSummary(topic) ==
    /\ pc = "idle"
    /\ wiki_requests' = <<>>
    /\ wiki_page' = None
    /\ IF topic \in {"", " "}
       THEN /\ wiki_stack' = <<>>
            /\ wiki_ret' = Raised(Exc("ValueError",
                   <<"Topic", "cannot", "be", "empty">>))
            /\ pc' = "done"
       ELSE /\ wiki_stack' = <<topic>>
            /\ wiki_ret' = NoRet
            /\ pc' = "wiki_summary"
    /\ UNCHANGED <<exec_vars_but_pc, planner_vars, gateway_vars, verifier_vars,
                   pipeline_vars, llm_vars, cmp_vars>>

\* get_summary: _make_request for the topic of the innermost call returns or
\* raises
SummaryResponse(response) ==
    /\ pc = "wiki_summary"
    /\ wiki_requests' = Append(wiki_requests,
           [op |-> "summary", topic |-> CurrentTopic, out |-> response])
    /\ IF response.kind = "return"
       THEN IF response.value.type = "disambiguation"
            THEN /\ wiki_page' = response.value
                 /\ pc' = "wiki_disambiguation"
                 /\ UNCHANGED <<wiki_stack, wiki_ret>>
            ELSE /\ wiki_ret' = Returned(parse_summary_data(response.value))
                 /\ pc' = "done"
                 /\ UNCHANGED <<wiki_stack, wiki_page>>
       ELSE IF response.exc.type = "HTTPError"
               /\ response.exc.status_code = 404
            THEN /\ pc' = "wiki_not_found"
                 /\ UNCHANGED <<wiki_stack, wiki_page, wiki_ret>>
            ELSE /\ wiki_raise(response.exc)
                 /\ UNCHANGED wiki_page
    /\ UNCHANGED <<exec_vars_but_pc, planner_vars, gateway_vars, verifier_vars,
                   pipeline_vars, llm_vars, cmp_vars>>

\* get_summary on a disambiguation page: _handle_disambiguation searches for
\* the topic, then get_summary calls itself with the alternative or returns
\* the page as it is
HandleDisambiguation(out) ==
    /\ pc = "wiki_disambiguation"
    /\ wiki_requests' = Append(wiki_requests,
           [op |-> "search", topic |-> CurrentTopic, out |-> out])
    /\ LET alternative == IF out.kind = "raise" THEN None
                          ELSE first_alternative(out.value)
       IN  IF alternative # None /\ alternative.text # <<CurrentTopic>>
           THEN IF Len(wiki_stack) >= MaxDepth
                THEN /\ wiki_ret' = Raised(Exc("RecursionError",
                            <<"maximum", "recursion", "depth", "exceeded">>))
                     /\ pc' = "done"
                     /\ UNCHANGED <<wiki_stack, wiki_page>>
                ELSE /\ wiki_stack' = Append(wiki_stack, alternative.text[1])
                     /\ pc' = "wiki_summary"
                     /\ UNCHANGED <<wiki_page, wiki_ret>>
           ELSE /\ wiki_ret' = Returned(disambiguation_info(wiki_page))
                /\ pc' = "done"
                /\ UNCHANGED <<wiki_stack, wiki_page>>
    /\ UNCHANGED <<exec_vars_but_pc, planner_vars, gateway_vars, verifier_vars,
                   pipeline_vars, llm_vars, cmp_vars>>

\* get_summary after a 404: search_articles(topic, limit=1), then the
\* ValueError with or without a suggestion
SuggestAfterNotFound(out) ==
    /\ pc = "wiki_not_found"
    /\ wiki_requests' = Append(wiki_requests,
           [op |-> "search", topic |-> CurrentTopic, out |-> out])
    /\ IF out.kind = "raise"
       THEN wiki_raise(out.exc)
       ELSE /\ wiki_ret' = Raised(Exc("ValueError",
                   IF out.value # <<>>
                   THEN <<"Article", CurrentTopic, "not", "found.", "Did",
                          "you", "mean", out.value[1]>>
                   ELSE <<"Article", CurrentTopic, "not", "found.", "Please",
                          "check", "the", "spelling">>))
            /\ pc' = "done"
            /\ UNCHANGED wiki_stack
    /\ UNCHANGED wiki_page
    /\ UNCHANGED <<exec_vars_but_pc, planner_vars, gateway_vars, verifier_vars,
                   pipeline_vars, llm_vars, cmp_vars>>

Init ==
    /\ tools \in ToolRegistries
    /\ pc = "idle"
    /\ plan = None
    /\ idx = 0
    /\ steps_completed = 0
    /\ steps_failed = 0
    /\ results = <<>>
    /\ execution_log = <<>>
    /\ attempt = 0
    /\ delay = initial_delay
    /\ last_exception = NoException
    /\ invocations = <<>>
    /\ sleeps = <<>>
    /\ tool_calls = <<>>
    /\ attempted = <<>>
    /\ exec_ret = NoRet
    /\ prev_ret = NoRet
    /\ query = <<>>
    /\ gateway_calls = <<>>
    /\ gateway_outs = <<>>
    /\ planner_ret = NoRet
    /\ is_comparison = NoRet
    /\ v_plan = None
    /\ v_exec = None
    /\ is_complete = FALSE
    /\ issues = <<>>
    /\ verify_ret = NoRet
    /\ stage = "none"
    /\ pq_query = <<>>
    /\ pq_result = None
    /\ llm_provider = "openai"
    /\ llm_max_retries = default_max_retries
    /\ llm_messages = <<>>
    /\ llm_response_format = "none"
    /\ llm_attempt = 0
    /\ llm_last_error = NoException
    /\ llm_invocations = <<>>
    /\ llm_sleeps = <<>>
    /\ llm_ret = NoRet
    /\ cmp_tool = "none"
    /\ cmp_items = <<>>
    /\ cmp_units = "none"
    /\ cmp_ret = NoRet
    /\ wiki_stack = <<>>
    /\ wiki_page = None
    /\ wiki_requests = <<>>
    /\ wiki_ret = NoRet

Next ==
    \/ \E p \in ExecPlans : ExecutePlan(p)
    \/ \E p \in RepeatPlans : ExecutePlanAgain(p)
    \/ \E q \in Queries : CreatePlan(q)
    \/ \E q \in ComparisonQueries : DetectComparisonIntent(q)
    \/ \E out \in PlannerGatewayOutcomes : PlannerGatewayReturns(out)
    \/ \E p \in VerifyPlans, er \in VerifyExecutions : VerifyResults(p, er)
    \/ \E out \in VerifierGatewayOutcomes : VerifierGatewayReturns(out)
    \/ \E q \in PipelineQueries : ProcessQuery(q)
    \/ AfterPlanning
    \/ AfterExecution
    \/ AfterVerification
    \/ \E provider \in Providers, retries \in RetryCounts,
          messages \in MessageLists :
            GenerateCompletion(provider, retries, messages)
    \/ \E provider \in Providers, retries \in RetryCounts,
          messages \in MessageLists :
            GenerateJsonCompletion(provider, retries, messages)
    \/ \E cities \in ItemLists(WeatherItems, MaxItems),
          units \in UnitSystems : CompareWeather(cities, units)
    \/ \E topics \in ItemLists(TopicItems, MaxItems) :
          CompareTopics(topics)
    \/ \E repo_queries \in ItemLists(RepoItems, MaxItems) :
          CompareRepositories(repo_queries)
    \/ \E topic \in WikiTopics : GetSummary(topic)
    \/ \E response \in SummaryResponses : SummaryResponse(response)
    \/ \E out \in SearchOutcomes : HandleDisambiguation(out)
    \/ \E out \in SearchOutcomes : SuggestAfterNotFound(out)
    \/ LLMAttempt
    \/ LLMExhausted
    \/ BeginStep
    \/ Invoke
    \/ Sleep
    \/ FinishPlan

Spec == Init /\ [][Next]_vars

-----------------------------------------------------------------------------
(* Properties of ExecutorAgent *)

Last(seq) == seq[Len(seq)]

Count(rs, status) == Cardinality({ i \in DOMAIN rs : rs[i].status = status })

\* the plan in the executor's hands is a dict with a non-empty list of dicts
HasStepList ==
    /\ IsDict(plan)
    /\ "steps" \in Keys(plan)
    /\ IsList(plan.steps)
    /\ Len(plan.steps.items) > 0
    /\ \A i \in DOMAIN plan.steps.items : IsDict(plan.steps.items[i])

NumSteps == Len(plan.steps.items)

ExecReturned == exec_ret.kind = "return"

\* the executor has just recorded the result of step idx - 1, and invocations,
\* sleeps still hold the history of that step
StepRecorded ==
    /\ pc \notin {"call", "sleep"}
    /\ idx >= 2
    /\ Len(results) = idx - 1

StepJustRecorded == HasStepList /\ StepRecorded

\* the transient keywords as the specification lists them
MatchesTransientKeyword(e) ==
    \E keyword \in { <<"timeout">>, <<"rate", "limit">>, <<"429">>, <<"503">>,
                     <<"502">>, <<"connection">>, <<"network">> } :
        Contains(Lower(e.text), keyword)

\* C1: for a plan with a non-empty step list execute_plan returns a result
\* whose tallies add up to the number of steps, with one result per step,
\* steps_completed the number of 'success' results and steps_failed the
\* number of 'failed' results.
C1_TalliesMatchPlan ==
    (HasStepList /\ exec_ret # NoRet) =>
        /\ ExecReturned
        /\ LET r == exec_ret.value
           IN  /\ r.steps_completed + r.steps_failed = NumSteps
               /\ Len(r.results) = NumSteps
               /\ r.steps_completed = Count(r.results, "success")
               /\ r.steps_failed = Count(r.results, "failed")

C1_Witness ==
    /\ HasStepList
    /\ ExecReturned
    /\ exec_ret.value.steps_completed = 1
    /\ exec_ret.value.steps_failed = 1
    /\ \E i \in DOMAIN results :
           /\ results[i].status = "failed"
           /\ Contains(results[i].error.text, <<"Unexpected", "error:">>)

\* C2: the returned ExecutionResult has success exactly when steps_completed
\* is positive: one successful step is enough whatever the others did, and
\* success is false exactly when every step failed.
C2_SuccessIffOneStepCompleted ==
    ExecReturned =>
        LET r == exec_ret.value
        IN  /\ r.success <=> (r.steps_completed > 0)
            /\ (\E i \in DOMAIN r.results : r.results[i].status = "success")
                   => r.success
            /\ (~r.success) <=>
                   (\A i \in DOMAIN r.results : r.results[i].status = "failed")

C2_Witness ==
    /\ ExecReturned
    /\ exec_ret.value.success
    /\ exec_ret.value.steps_failed >= 1

\* C3: no failure of a step escapes execute_plan or stops the plan: a step
\* whose tool operation or parameter dispatch raised is recorded as failed
\* with that error, and every step of the plan is attempted, in order.
C3_StepFailureIsolated ==
    /\ HasStepList => exec_ret.kind # "raise"
    /\ (HasStepList /\ ExecReturned) =>
           /\ attempted = [i \in 1..NumSteps |-> i]
           /\ Len(exec_ret.value.results) = NumSteps
    /\ (StepJustRecorded /\ invocations # <<>>
            /\ Last(invocations).kind = "raise") =>
           /\ results[idx - 1].status = "failed"
           /\ results[idx - 1].error = Str(Last(invocations).exc.text)
           /\ results[idx - 1].data = None

C3_Witness ==
    /\ HasStepList
    /\ ExecReturned
    /\ NumSteps = 2
    /\ results[1].status = "failed"
    /\ \E c \in DOMAIN tool_calls : tool_calls[c].step = 1
    /\ \E c \in DOMAIN tool_calls : tool_calls[c].step = 2

\* C4: a step naming a tool that is not registered is recorded as failed
\* with an error text naming the tool, without any tool operation, retry
\* attempt or sleep; execute_plan does not raise and goes on with the next
\* step.
UnregisteredStep(i) ==
    LET name == Get(plan.steps.items[i], "tool", "")
    IN  name \notin UnhashableNames /\ name \notin tools

C4_UnknownToolFailsStep ==
    /\ (StepJustRecorded /\ UnregisteredStep(idx - 1)) =>
           /\ results[idx - 1].status = "failed"
           /\ Contains(results[idx - 1].error.text,
                       <<Get(plan.steps.items[idx - 1], "tool", "")>>)
           /\ Contains(results[idx - 1].error.text, <<"not", "found">>)
           /\ invocations = <<>>
           /\ sleeps = <<>>
           /\ \A c \in DOMAIN tool_calls : tool_calls[c].step # idx - 1
    /\ (HasStepList /\ exec_ret # NoRet) =>
           /\ ExecReturned
           /\ \A i \in 1..NumSteps :
                  UnregisteredStep(i) =>
                      /\ exec_ret.value.results[i].status = "failed"
                      /\ \A j \in (i + 1)..NumSteps :
                             \E k \in DOMAIN attempted : attempted[k] = j

C4_Witness ==
    /\ HasStepList
    /\ ExecReturned
    /\ NumSteps = 2
    /\ UnregisteredStep(1)
    /\ results[2].status = "success"

\* C5: when the wrapped operation fails k times (0 <= k <= 3) with a
\* transient-keyword error and then succeeds, the retry wrapper returns the
\* success value after k + 1 invocations and exactly k sleeps of 1, 2, 4
\* seconds in that order.
C5_RetryRecovers ==
    (StepRecorded /\ invocations # <<>>
         /\ Last(invocations).kind = "return") =>
        LET k == Len(invocations) - 1
        IN  /\ k <= 3
            /\ \A j \in 1..k : /\ invocations[j].kind = "raise"
                               /\ MatchesTransientKeyword(invocations[j].exc)
            /\ sleeps = SubSeq(<<1, 2, 4>>, 1, k)
            /\ results[idx - 1].status = "success"
            /\ results[idx - 1].data = Last(invocations).value

C5_Witness ==
    /\ StepRecorded
    /\ Len(invocations) = 3
    /\ Last(invocations).kind = "return"
    /\ sleeps = <<1, 2>>

C5_WitnessThree ==
    /\ StepRecorded
    /\ Len(invocations) = 4
    /\ Last(invocations).kind = "return"

\* C6: an error whose text matches none of the transient keywords is never
\* retried: the wrapper raises it at once, after one invocation and no sleep
\* when it is the first failure, and without a further sleep or invocation
\* when it follows transient failures.
C6_NonTransientNotRetried ==
    \A j \in DOMAIN invocations :
        (invocations[j].kind = "raise"
             /\ ~MatchesTransientKeyword(invocations[j].exc)) =>
            /\ j = Len(invocations)
            /\ Len(sleeps) = j - 1
            /\ pc \notin {"call", "sleep"}
            /\ StepRecorded
            /\ results[idx - 1].status = "failed"
            /\ results[idx - 1].error = Str(invocations[j].exc.text)

C6_Witness ==
    /\ Len(invocations) = 2
    /\ invocations[1].kind = "raise"
    /\ MatchesTransientKeyword(invocations[1].exc)
    /\ invocations[2].kind = "raise"
    /\ ~MatchesTransientKeyword(invocations[2].exc)
    /\ Len(tool_calls) >= 2

C6_WitnessFirst ==
    /\ Len(invocations) = 1
    /\ invocations[1].kind = "raise"
    /\ ~MatchesTransientKeyword(invocations[1].exc)
    /\ sleeps = <<>>
    /\ Len(tool_calls) >= 1

\* C7: a step performs at most 4 tool invocations and 3 backoff sleeps, so
\* execute_plan terminates for every finite plan (every step of the executor
\* lowers a non-negative measure); a step whose tool always raises a
\* transient error makes exactly 4 invocations and sleeps 1, 2, 4 seconds,
\* and is recorded as failed with the last raised error as its error text.
ExecRunning == pc \in {"loop", "call", "sleep"}

\* the number of executor steps that can still follow, at most
ExecMeasure ==
    CASE pc = "loop" -> (Len(plan.steps.items) - idx + 1) * 10 + 1
      [] pc = "call" -> (Len(plan.steps.items) - idx) * 10 + 2 * (3 - attempt) + 3
      [] pc = "sleep" -> (Len(plan.steps.items) - idx) * 10 + 2 * (3 - attempt) + 2
      [] OTHER -> 0

C7_Bounds ==
    /\ Len(invocations) <= 4
    /\ Len(sleeps) <= 3
    /\ \A i \in 1..Len(attempted) :
           Cardinality({ c \in DOMAIN tool_calls : tool_calls[c].step = i }) <= 4
    /\ ExecRunning => ExecMeasure >= 0
    /\ (StepRecorded /\ invocations # <<>>
            /\ \A j \in DOMAIN invocations :
                   /\ invocations[j].kind = "raise"
                   /\ MatchesTransientKeyword(invocations[j].exc)) =>
           /\ Len(invocations) = 4
           /\ sleeps = <<1, 2, 4>>
           /\ results[idx - 1].status = "failed"
           /\ results[idx - 1].error = Str(Last(invocations).exc.text)

C7_RetryBound ==
    /\ []C7_Bounds
    /\ [][ExecRunning => ExecMeasure' < ExecMeasure]_vars

C7_Witness ==
    /\ StepRecorded
    /\ Len(invocations) = 4
    /\ Cardinality({ c \in DOMAIN tool_calls : tool_calls[c].step = idx - 1 }) = 4
    /\ invocations[1] # invocations[4]
    /\ Last(invocations).kind = "raise"
    /\ Last(invocations).exc.text = <<"Connection", "timeout">>
    /\ results[idx - 1].error = Str(<<"Connection", "timeout">>)

-----------------------------------------------------------------------------
(* Properties of the stages' argument checks *)

InvalidInput(ret) == ret.kind = "raise" /\ ret.exc.type = "ValueError"

CallsBy(caller) ==
    { i \in DOMAIN gateway_calls : gateway_calls[i].caller = caller }

\* create_plan, verify_results have been called
PlannerCalled == planner_ret # NoRet \/ pc = "planning"
VerifierCalled == verify_ret # NoRet \/ pc = "verifying"

EmptyInput(v) == v = None \/ v = EmptyDict

\* C8: each stage rejects an empty input with the invalid-input error before
\* any external call and without retry: create_plan an empty or
\* whitespace-only query (no gateway call), execute_plan a plan whose step
\* list is empty (no tool call), verify_results an empty or missing plan or
\* execution result (no gateway call).
C8_EmptyInputRejected ==
    /\ (PlannerCalled /\ \A i \in DOMAIN query : query[i] = " ") =>
           /\ InvalidInput(planner_ret)
           /\ CallsBy("planner") = {}
    /\ (IsDict(plan) /\ "steps" \in Keys(plan) /\ IsList(plan.steps)
            /\ Len(plan.steps.items) = 0) =>
           /\ InvalidInput(exec_ret)
           /\ tool_calls = <<>>
           /\ invocations = <<>>
           /\ sleeps = <<>>
           /\ attempted = <<>>
    /\ (VerifierCalled /\ (EmptyInput(v_plan) \/ EmptyInput(v_exec))) =>
           /\ InvalidInput(verify_ret)
           /\ CallsBy("verifier") = {}

C8_Witness ==
    /\ VerifierCalled
    /\ ~EmptyInput(v_plan)
    /\ v_exec = EmptyDict
    /\ InvalidInput(verify_ret)

C8_WitnessQuery ==
    /\ PlannerCalled
    /\ query = <<" ", " ">>
    /\ InvalidInput(planner_ret)

C8_WitnessPlan ==
    /\ IsDict(plan)
    /\ "steps" \in Keys(plan)
    /\ plan.steps = PyList(<<>>)
    /\ InvalidInput(exec_ret)

-----------------------------------------------------------------------------
(* Properties of VerifierAgent *)

VerifyReturned == verify_ret.kind = "return"

\* C11: verify_results returns is_complete true if and only if the
\* execution's steps_completed equals the number of steps of the plan; one
\* failed step out of two gives is_complete false although success is true.
C11_CompleteIffAllStepsCompleted ==
    VerifyReturned =>
        (verify_ret.value.is_complete
            <=> v_exec.steps_completed = Len(v_plan.steps.items))

C11_Witness ==
    /\ VerifyReturned
    /\ Len(v_plan.steps.items) = 2
    /\ v_exec.steps_completed = 1
    /\ v_exec.steps_failed = 1
    /\ v_exec.success
    /\ ~verify_ret.value.is_complete

\* what the gateway did with the call of the quality pass
VerifierOut == Last(gateway_outs)

\* the quality pass failed and verify_results took the except branch
FellBack == VerifyReturned /\ VerifierOut.kind = "raise"

\* C12: verify_results returns is_correct true if and only if the returned
\* issues list is empty and the execution's success is true, on the path of
\* the LLM quality pass and on the fallback path.
C12_CorrectIffNoIssuesAndSuccess ==
    VerifyReturned =>
        (verify_ret.value.is_correct
            <=> (Len(verify_ret.value.issues) = 0 /\ v_exec.success))

C12_Witness ==
    /\ VerifyReturned
    /\ VerifierOut.kind = "return"
    /\ v_exec.success
    /\ v_exec.steps_failed = 1
    /\ ~verify_ret.value.is_correct

C12_WitnessFallback ==
    /\ FellBack
    /\ verify_ret.value.is_correct

\* the gateway has answered the call of the quality pass with an error
QualityPassFailed ==
    /\ CallsBy("verifier") # {}
    /\ pc # "verifying"
    /\ VerifierOut.kind = "raise"

\* C13: when the gateway call of the quality pass fails (gateway error,
\* retries exhausted, response that is not JSON) verify_results does not
\* raise: it returns the deterministic formatter's report, confidence 0.5,
\* no recommendations, exactly the deterministically collected issues, and
\* is_complete and is_correct as on the normal path.
C13_FallbackOnGatewayFailure ==
    QualityPassFailed =>
        /\ VerifyReturned
        /\ verify_ret.value.formatted_output = format_for_display(v_exec)
        /\ verify_ret.value.confidence_score = 50
        /\ verify_ret.value.recommendations = <<>>
        /\ verify_ret.value.issues = collected_issues(v_plan, v_exec)
        /\ verify_ret.value.is_complete
               = (v_exec.steps_completed = Len(v_plan.steps.items))
        /\ verify_ret.value.is_correct
               = (collected_issues(v_plan, v_exec) = <<>> /\ v_exec.success)

C13_Witness ==
    /\ QualityPassFailed
    /\ VerifierOut.exc.type = "ValueError"
    /\ Len(verify_ret.value.issues) = 2
    /\ Len(verify_ret.value.formatted_output) > 8

C13_WitnessExhausted ==
    /\ QualityPassFailed
    /\ VerifierOut.exc.type = "Exception"
    /\ VerifyReturned
    /\ verify_ret.value.issues = <<>>

\* the issues verify_results returned begin with the given ones
BeginsWith(iss) ==
    /\ Len(verify_ret.value.issues) >= Len(iss)
    /\ SubSeq(verify_ret.value.issues, 1, Len(iss)) = iss

\* C14: whenever a step failed or steps_completed differs from the number
\* of plan steps, the issues verify_results returns are non-empty and
\* is_correct is false whatever the quality pass answers: the answer adds
\* to the deterministically collected issues and never removes one.
C14_CollectedIssuesSurvive ==
    VerifyReturned =>
        /\ BeginsWith(collected_issues(v_plan, v_exec))
        /\ (v_exec.steps_failed > 0
                \/ v_exec.steps_completed # Len(v_plan.steps.items)) =>
               /\ verify_ret.value.issues # <<>>
               /\ ~verify_ret.value.is_correct

C14_Witness ==
    /\ VerifyReturned
    /\ VerifierOut.kind = "return"
    /\ IsDict(VerifierOut.value)
    /\ "issues" \in Keys(VerifierOut.value)
    /\ VerifierOut.value.issues = PyList(<<>>)
    /\ v_exec.steps_failed > 0
    /\ verify_ret.value.issues # <<>>

\* the issues verify_results returned hold the unusual-temperature issue
\* for the reading t
FlaggedTemperature(t) ==
    \E k \in DOMAIN verify_ret.value.issues :
        verify_ret.value.issues[k]
            = <<"Unusual", "temperature", "value:", ToString(t)>>

\* the result is a successful step whose data is a dict with a temperature
HasReading(result) ==
    /\ result.status = "success"
    /\ IsDict(result.data)
    /\ "temperature" \in Keys(result.data)

\* C15: the anomaly scan flags a successful step whose data carries a
\* numeric temperature exactly when the value is below -100 or above 60
\* (85 is flagged; 20, -100 and 60 are not), and flags nothing for a step
\* whose status is failed.
C15_TemperatureAnomaly ==
    VerifyReturned =>
        /\ \A i \in DOMAIN v_exec.results :
               LET result == v_exec.results[i]
               IN  (HasReading(result) /\ IsNumber(result.data.temperature)) =>
                       (FlaggedTemperature(result.data.temperature)
                           <=> (result.data.temperature < -100
                                    \/ result.data.temperature > 60))
        /\ (\A i \in DOMAIN v_exec.results :
                v_exec.results[i].status = "failed") =>
               \A k \in DOMAIN verify_ret.value.issues :
                   verify_ret.value.issues[k][1] \notin {"Unusual", "Empty"}

C15_Witness ==
    /\ VerifyReturned
    /\ HasReading(v_exec.results[1])
    /\ v_exec.results[1].data.temperature = 85
    /\ FlaggedTemperature(85)

C15_WitnessLimit ==
    /\ VerifyReturned
    /\ HasReading(v_exec.results[1])
    /\ v_exec.results[1].data.temperature = 60
    /\ ~FlaggedTemperature(60)

C15_WitnessFailed ==
    /\ VerifyReturned
    /\ v_exec.results[1].status = "failed"
    /\ IsDict(v_exec.results[1].data)
    /\ v_exec.results[1].data.temperature = 85
    /\ ~FlaggedTemperature(85)

\* C16: for every execution result holding a step with status success and
\* data [], the issues verify_results returns hold the empty-result-set
\* issue, and is_correct is false.
C16_EmptyResultSetFlagged ==
    (/\ VerifyReturned
     /\ \E i \in DOMAIN v_exec.results :
            /\ v_exec.results[i].status = "success"
            /\ v_exec.results[i].data = PyList(<<>>)) =>
        /\ \E k \in DOMAIN verify_ret.value.issues :
               verify_ret.value.issues[k]
                   = <<"Empty", "result", "set", "returned">>
        /\ ~verify_ret.value.is_correct

\* C17: every VerificationResult that reaches the caller, from
\* verify_results on the LLM path or on the fallback path or from the
\* substitute of process_query, has confidence_score within [0, 1]
\* (0..100 hundredths), for every LLM response.
C17_ConfidenceWithinUnitInterval ==
    /\ VerifyReturned => verify_ret.value.confidence_score \in 0..100
    /\ (IsDict(pq_result) /\ Truthy(pq_result.verification)) =>
           pq_result.verification.confidence_score \in 0..100

-----------------------------------------------------------------------------
(* Properties of AIOperationsAssistant.process_query *)

\* process_query has returned after its call of verify_results raised
VerifierFailed == stage = "finished" /\ verify_ret.kind = "raise"

\* C18: when verify_results raises, process_query still completes normally:
\* its result carries the plan and the execution result unchanged and a
\* substitute verification with confidence 0, is_complete false, is_correct
\* false and the error as its sole issue, and no pipeline-level error is
\* reported.
C18_VerifierFailureNotFatal ==
    VerifierFailed =>
        /\ IsDict(pq_result)
        /\ pq_result.plan = planner_ret.value
        /\ pq_result.execution = exec_ret.value
        /\ Truthy(pq_result.verification)
        /\ pq_result.verification.confidence_score = 0
        /\ ~pq_result.verification.is_complete
        /\ ~pq_result.verification.is_correct
        /\ pq_result.verification.issues
               = << <<"Verification", "failed:">> \o verify_ret.exc.text >>
        /\ "error" \notin Keys(pq_result)

C19_WitnessValidation ==
    /\ stage = "finished"
    /\ planner_ret = Raised(Exc("ValueError",
           <<"Generated", "plan", "failed", "validation">>))
    /\ pq_result.plan = None

C19_WitnessVerifier ==
    /\ VerifierFailed
    /\ IsDict(pq_result)
    /\ "error" \in Keys(pq_result)

-----------------------------------------------------------------------------
(* Properties of PlannerAgent *)

ValidationError ==
    Raised(Exc("ValueError", <<"Generated", "plan", "failed", "validation">>))

\* what the gateway handed to create_plan
PlannerOut == gateway_outs[1]

\* create_plan has received the parsed response and finished
PlannerSawResponse ==
    /\ planner_ret # NoRet
    /\ gateway_outs # <<>>
    /\ gateway_calls[1].caller = "planner"
    /\ PlannerOut.kind = "return"

FieldsOf(v) == IF IsDict(v) THEN Keys(v) ELSE {}

StepsOf(p) ==
    IF "steps" \in FieldsOf(p) /\ IsList(p.steps) THEN p.steps.items ELSE <<>>

\* the step numbers of the plan, 0 standing for a step that has none
StepNumbers(p) ==
    [i \in DOMAIN StepsOf(p) |->
        IF "step_number" \in FieldsOf(StepsOf(p)[i])
        THEN StepsOf(p)[i].step_number ELSE 0]

\* the reasons for which validation is to reject a plan
MissingTopField(p) ==
    \E f \in {"task_description", "intent", "steps"} : f \notin FieldsOf(p)
BadIntent(p) ==
    "intent" \in FieldsOf(p)
        /\ p.intent \notin {"search", "compare", "summarize", "mixed"}
BadSteps(p) ==
    "steps" \in FieldsOf(p) /\ (~IsList(p.steps) \/ Len(p.steps.items) = 0)
StepLacksField(p) ==
    \E i \in DOMAIN StepsOf(p) :
        \E f \in {"step_number", "action", "tool", "parameters",
                  "expected_output"} : f \notin FieldsOf(StepsOf(p)[i])
NumbersNotSequential(p) ==
    StepNumbers(p) # [i \in DOMAIN StepsOf(p) |-> i]
UnknownTool(p) ==
    \E i \in DOMAIN StepsOf(p) :
        "tool" \in FieldsOf(StepsOf(p)[i])
            /\ StepsOf(p)[i].tool \notin {"github", "weather", "wikipedia"}
ParametersNotMapping(p) ==
    \E i \in DOMAIN StepsOf(p) :
        "parameters" \in FieldsOf(StepsOf(p)[i])
            /\ ~IsDict(StepsOf(p)[i].parameters)

ShouldReject(p) ==
    \/ MissingTopField(p)
    \/ BadIntent(p)
    \/ BadSteps(p)
    \/ StepLacksField(p)
    \/ NumbersNotSequential(p)
    \/ UnknownTool(p)
    \/ ParametersNotMapping(p)

\* C9: validation rejects a plan exactly when a required top-level field is
\* missing, the intent is not one of the four, steps is empty or not a
\* sequence, a step lacks a required field, the step numbers are not 1..N in
\* order ([1,3], [2,1] and [1,1] are rejected), a tool is not one of the
\* three, or a step's parameters is not a mapping; comparison_mode and
\* entities play no part.
C9_ValidationRejectsExactly ==
    PlannerSawResponse =>
        LET p == PlannerOut.value
        IN  /\ (planner_ret = ValidationError) <=> ShouldReject(p)
            /\ (planner_ret = Returned(p)) <=> ~ShouldReject(p)
            /\ StepNumbers(p) \in {<<1, 3>>, <<2, 1>>, <<1, 1>>}
                   => planner_ret = ValidationError

C9_Witness ==
    /\ PlannerSawResponse
    /\ planner_ret.kind = "return"
    /\ "comparison_mode" \in FieldsOf(PlannerOut.value)
    /\ PlannerOut.value.comparison_mode
    /\ "entities" \notin FieldsOf(PlannerOut.value)

C9_WitnessGap ==
    /\ PlannerSawResponse
    /\ planner_ret = ValidationError
    /\ StepNumbers(PlannerOut.value) = <<1, 3>>
    /\ ~StepLacksField(PlannerOut.value)

\* the Plan invariant of the data model
PlanInvariant(p) ==
    /\ IsDict(p)
    /\ "steps" \in Keys(p)
    /\ IsList(p.steps)
    /\ Len(p.steps.items) > 0
    /\ \A i \in DOMAIN p.steps.items :
           LET step == p.steps.items[i]
           IN  /\ IsDict(step)
               /\ {"step_number", "tool", "parameters"} \subseteq Keys(step)
               /\ step.step_number = i
               /\ step.tool \in {"github", "weather", "wikipedia"}
               /\ IsDict(step.parameters)

\* C10: whatever the LLM answers, a plan that create_plan returns satisfies
\* the Plan invariant (steps non-empty, the i-th step numbered i, every tool
\* one of the three, every parameters a mapping), so do the plans that
\* process_query hands to the executor and to the verifier, and an answer
\* violating the invariant makes create_plan raise the validation error.
C10_ReturnedPlanSatisfiesInvariant ==
    /\ planner_ret.kind = "return" =>
           /\ PlannerSawResponse
           /\ planner_ret.value = PlannerOut.value
           /\ PlanInvariant(planner_ret.value)
    /\ (PlannerSawResponse /\ ~PlanInvariant(PlannerOut.value))
           => planner_ret = ValidationError
    /\ stage \in {"execution", "verification"} =>
           /\ plan = planner_ret.value
           /\ PlanInvariant(plan)
    /\ (stage = "verification" \/ (stage = "finished" /\ verify_ret # NoRet)) =>
           /\ v_plan = planner_ret.value
           /\ PlanInvariant(v_plan)

C10_Witness ==
    /\ planner_ret.kind = "return"
    /\ Len(planner_ret.value.steps.items) = 2
    /\ planner_ret.value.steps.items[2].tool = "github"
    /\ stage = "finished"
    /\ verify_ret.kind = "return"
    /\ v_plan = planner_ret.value

(***************************************************************************)
(* Properties of LLMClient *)
(***************************************************************************)
\* The failures the retry policy names as transient: rate-limit, connection
\* and 5xx-class server errors, of either provider.
TransientProviderErrors ==
    { RateLimited,
      Exc("APIConnectionError", <<"Connection", "error.">>),
      APIStatusError("InternalServerError", 500,
                     <<"Internal", "server", "error">>),
      GeminiResourceExhausted,
      Exc("ServiceUnavailable", <<"503", "Service", "unavailable">>),
      Exc("InternalServerError", <<"500", "Internal", "error">>),
      Exc("ConnectionError", <<"Connection", "reset">>) }

TransientFailure(out) ==
    out.kind = "raise" /\ out.exc \in TransientProviderErrors

AtMostMaxRetries == Len(llm_invocations) <= llm_max_retries

WaitsAreBackoff ==
    \A k \in DOMAIN llm_sleeps :
        llm_sleeps[k] = IF Pow2(k - 1) < 60 THEN Pow2(k - 1) ELSE 60

\* A transient failure of attempt i (1-based) with attempts remaining is
\* followed by its wait, never by the end of the call.
TransientRetried ==
    \A i \in DOMAIN llm_invocations :
        (TransientFailure(llm_invocations[i]) /\ i < llm_max_retries)
            => Len(llm_sleeps) >= i

\* C20: in generate_completion every transient provider failure (rate-limit,
\* connection, 5xx-class server error) is retried while attempts remain, the
\* provider is invoked at most max_retries times per call, and the wait after
\* failed attempt k (0-indexed) is min(2^k, 60) seconds.
C20_GatewayRetryPolicy ==
    /\ TransientRetried
    /\ AtMostMaxRetries
    /\ WaitsAreBackoff

\* The client errors of either provider: 4xx other than rate-limit.
ClientProviderErrors ==
    { APIStatusError("BadRequestError", 400, <<"Invalid", "request">>),
      APIStatusError("AuthenticationError", 401, <<"Incorrect", "API", "key">>),
      Exc("InvalidArgument", <<"400", "Invalid", "argument">>),
      Exc("PermissionDenied", <<"403", "Permission", "denied">>) }

ClientFailure(out) == out.kind = "raise" /\ out.exc \in ClientProviderErrors

LLMEnded == llm_ret.kind # "none"

C21_WitnessOpenAI ==
    /\ llm_provider = "openai"
    /\ Len(llm_invocations) = 1
    /\ ClientFailure(llm_invocations[1])
    /\ llm_max_retries = default_max_retries
    /\ llm_ret.kind = "raise"

C21_WitnessLater ==
    /\ Len(llm_invocations) = 2
    /\ ClientFailure(llm_invocations[2])
    /\ llm_sleeps = <<1>>

AllAttemptsTransient ==
    /\ llm_max_retries >= 1
    /\ Len(llm_invocations) = llm_max_retries
    /\ \A i \in DOMAIN llm_invocations : TransientFailure(llm_invocations[i])

\* C22: when every allowed attempt has failed with a transient error,
\* generate_completion raises the exhaustion error, which reports the number
\* of attempts and carries the last provider error, whatever the provider
\* and the kind of transient failure.
C22_ExhaustionErrorUniform ==
    (LLMEnded /\ AllAttemptsTransient)
        => llm_ret = Raised(exhausted_error(llm_max_retries,
                                            Last(llm_invocations).exc))

\* The valid JSON documents among the completions, with their values.
ValidJson ==
    << [text |-> <<"{", "}">>, value |-> EmptyDict],
       [text |-> <<"{", "\"summary\"", ":", "\"ok\"", "}">>,
        value |-> [py_type |-> "dict", summary |-> Str(<<"ok">>)]],
       [text |-> <<"{", "\"summary\"", ":", "\"ok\"", ",",
                   "\"confidence_score\"", ":", "1", "}">>,
        value |-> [py_type |-> "dict", summary |-> Str(<<"ok">>),
                   confidence_score |-> 1]],
       [text |-> <<"[", "]">>, value |-> PyList(<<>>)],
       [text |-> <<"null">>, value |-> None] >>

IsValidJson(text) == \E k \in DOMAIN ValidJson : ValidJson[k].text = text

Delivered(out) == out.kind = "return"

JsonCallDelivered ==
    /\ llm_response_format = "json_object"
    /\ Len(llm_invocations) > 0
    /\ Delivered(Last(llm_invocations))

MalformedResponse(ret) ==
    /\ ret.kind = "raise"
    /\ ret.exc.type = "ValueError"
    /\ Len(ret.exc.text) > 5
    /\ SubSeq(ret.exc.text, 1, 5)
           = <<"Failed", "to", "parse", "JSON", "response:">>

\* C23: generate_json_completion returns the parsed value of a completion
\* that is valid JSON and raises the malformed-response error for any other
\* delivered completion; the delivered completion ends the call, so exactly
\* one successful provider call precedes the result and nothing is retried.
C23_JsonCompletionParsedOrRejected ==
    JsonCallDelivered =>
        /\ pc = "done"
        /\ Cardinality({ i \in DOMAIN llm_invocations :
                            Delivered(llm_invocations[i]) }) = 1
        /\ Len(llm_sleeps) = Len(llm_invocations) - 1
        /\ \A k \in DOMAIN ValidJson :
              ValidJson[k].text = Last(llm_invocations).value
                  => llm_ret = Returned(ValidJson[k].value)
        /\ ~IsValidJson(Last(llm_invocations).value)
              => MalformedResponse(llm_ret)

C23_Witness ==
    /\ JsonCallDelivered
    /\ ~IsValidJson(Last(llm_invocations).value)
    /\ MalformedResponse(llm_ret)
    /\ Len(llm_invocations) = 1

C23_WitnessParsed ==
    /\ JsonCallDelivered
    /\ Len(llm_sleeps) = 1
    /\ llm_ret.kind = "return"
    /\ llm_ret.value = ValidJson[3].value

C23_WitnessTrailing ==
    /\ JsonCallDelivered
    /\ Last(llm_invocations).value = <<"{", "}", "Done.">>
    /\ llm_ret.kind = "raise"

(***************************************************************************)
(* Properties of the tools' compare operations *)
(***************************************************************************)
\* What the backend delivered for one item: <<data>>, or <<>> when the
\* item failed.
Answer(outcome) ==
    IF outcome.kind = "return" THEN <<outcome.value>> ELSE <<>>

FirstHit(outcome) ==
    IF outcome.kind = "return" /\ Len(outcome.value.items) > 0
    THEN <<outcome.value.items[1]>> ELSE <<>>

NotFound(outcome) ==
    /\ outcome.kind = "raise"
    /\ outcome.exc.type = "HTTPError"
    /\ outcome.exc.status_code = 404

ItemData(it) ==
    IF cmp_tool # "github" THEN Answer(it.lookup)
    ELSE IF ~is_owner_repo(it.item) THEN FirstHit(it.lookup.search)
    ELSE IF NotFound(it.lookup.details) THEN FirstHit(it.lookup.search)
    ELSE Answer(it.lookup.details)

ItemNamedBy(entry, item) ==
    CASE cmp_tool = "weather" -> entry.city = item
      [] cmp_tool = "wikipedia" -> entry.title = item
      [] cmp_tool = "github" -> entry.name = item /\ entry.full_name = item

CompareEnded == cmp_tool # "none"

\* C24: a compare operation never raises because an item failed; it returns
\* one entry per item, in the order of the items: the data delivered for an
\* item that succeeded, and for a failed item a placeholder that names the
\* item and carries an error field.
C24_CompareAbsorbsItemFailures ==
    CompareEnded =>
        /\ cmp_ret.kind = "return"
        /\ IsList(cmp_ret.value)
        /\ Len(cmp_ret.value.items) = Len(cmp_items)
        /\ \A i \in DOMAIN cmp_items :
              LET entry == cmp_ret.value.items[i]
                  data == ItemData(cmp_items[i])
              IN  IF Len(data) = 1 THEN entry = data[1]
                  ELSE /\ "error" \in Keys(entry)
                       /\ Len(entry.error) > 0
                       /\ ItemNamedBy(entry, cmp_items[i].item)

C24_Witness ==
    /\ cmp_tool = "wikipedia"
    /\ Len(cmp_items) = 2
    /\ ItemData(cmp_items[1]) = <<>>
    /\ ItemData(cmp_items[2]) # <<>>
    /\ cmp_ret.kind = "return"

C24_WitnessWeather ==
    /\ cmp_tool = "weather"
    /\ Len(cmp_items) = 2
    /\ \A i \in DOMAIN cmp_items : ItemData(cmp_items[i]) = <<>>
    /\ cmp_items[1].lookup.exc.type = "ValueError"
    /\ cmp_items[2].lookup.exc.type = "ConnectionError"
    /\ cmp_ret.kind = "return"

C24_WitnessRepositories ==
    /\ cmp_tool = "github"
    /\ Len(cmp_items) = 2
    /\ is_owner_repo(cmp_items[1].item)
    /\ NotFound(cmp_items[1].lookup.details)
    /\ ItemData(cmp_items[1]) = <<>>
    /\ ItemData(cmp_items[2]) # <<>>
    /\ cmp_ret.kind = "return"

(***************************************************************************)
(* Properties of VerifierAgent: the fallback summary *)
(***************************************************************************)
\* C25: on the fallback path of verify_results (the quality pass failed) the
\* returned summary is exactly "Verification completed with basic
\* formatting".
C25_FallbackSummary ==
    QualityPassFailed =>
        verify_ret.value.summary
            = <<"Verification", "completed", "with", "basic", "formatting">>

\* C25 as amended: on the fallback path the returned summary is exactly
\* "Verification completed with basic formatting (LLM unavailable)".
C25_FallbackSummaryNamesLLM ==
    QualityPassFailed =>
        /\ VerifyReturned
        /\ verify_ret.value.summary
               = <<"Verification", "completed", "with", "basic", "formatting",
                   "(LLM", "unavailable)">>

C25_Witness ==
    /\ QualityPassFailed
    /\ VerifyReturned
    /\ Len(verify_ret.value.summary) = 7
    /\ verify_ret.value.summary[6] = "(LLM"

(***************************************************************************)
(* Properties of ExecutorAgent: order of the steps *)
(***************************************************************************)
\* C26: steps execute strictly in plan order with no overlap.  A tool
\* operation is invoked for step i + 1 only when the results of steps 1..i
\* are recorded, a backoff sleep belongs to the one step not yet recorded,
\* results are only ever appended, one at a time, and the i-th result
\* carries the step_number of the i-th step of the plan.
C26_StepsInPlanOrder ==
    [][ /\ tool_calls' # tool_calls /\ tool_calls' # <<>> =>
              /\ tool_calls' = Append(tool_calls, Last(tool_calls'))
              /\ Last(tool_calls').step = Len(results) + 1
        /\ sleeps' # sleeps /\ sleeps' # <<>> =>
              /\ Len(results') = Len(results)
              /\ Len(results) = idx - 1
        /\ results' # results /\ results' # <<>> =>
              results' = Append(results, Last(results'))
        /\ \A i \in DOMAIN results' :
              results'[i].step_number
                  = Get(plan'.steps.items[i], "step_number", 0)
      ]_vars

C26_Witness ==
    /\ exec_ret.kind = "return"
    /\ Len(results) = 2
    /\ Len(tool_calls) = 3
    /\ tool_calls[1].step = 1
    /\ tool_calls[2].step = 1
    /\ tool_calls[3].step = 2
    /\ sleeps = <<>>

C26_WitnessRenumbered ==
    /\ exec_ret.kind = "return"
    /\ plan = RenumberedPlan
    /\ Len(results) = 2
    /\ results[1].step_number = 2
    /\ results[2].step_number = 1

(***************************************************************************)
(* Properties of AIOperationsAssistant.process_query: order of the stages *)
(***************************************************************************)
\* execute_plan has been called
ExecutorCalled ==
    \/ exec_ret # NoRet
    \/ ExecRunning
    \/ attempted # <<>>
    \/ tool_calls # <<>>

VerifierInvoked == VerifierCalled \/ CallsBy("verifier") # {}

\* C27: within one process_query call the stages run in the order plan,
\* execute, verify: the executor runs and tools are invoked only after
\* create_plan has returned a validated plan, the verifier is invoked only
\* after execute_plan has returned, and after a planning failure (or an
\* execution that raised) nothing of the later stages is invoked.
C27_StagesInOrder ==
    stage # "none" =>
        /\ ExecutorCalled =>
              /\ planner_ret.kind = "return"
              /\ PlanInvariant(planner_ret.value)
              /\ plan = planner_ret.value
              /\ stage \in {"execution", "verification", "finished"}
        /\ ExecRunning => stage = "execution" /\ ~VerifierInvoked
        /\ VerifierInvoked =>
              /\ exec_ret.kind = "return"
              /\ v_plan = planner_ret.value
              /\ v_exec = exec_ret.value
              /\ stage \in {"verification", "finished"}
        /\ stage = "planning" => ~ExecutorCalled /\ ~VerifierInvoked
        /\ planner_ret.kind = "raise" => ~ExecutorCalled /\ ~VerifierInvoked
        /\ exec_ret.kind = "raise" => ~VerifierInvoked

C27_Witness ==
    /\ stage = "finished"
    /\ planner_ret.kind = "return"
    /\ Len(tool_calls) >= 2
    /\ exec_ret.kind = "return"
    /\ verify_ret.kind = "return"
    /\ CallsBy("planner") # {}
    /\ CallsBy("verifier") # {}

C27_WitnessPlanningFailed ==
    /\ stage = "finished"
    /\ planner_ret.kind = "raise"
    /\ CallsBy("planner") # {}
    /\ ~ExecutorCalled
    /\ ~VerifierInvoked

(***************************************************************************)
(* Properties of ExecutorAgent: parameter dispatch *)
(***************************************************************************)
Has(ps, key) == IsDict(ps) /\ key \in Keys(ps)

Supplied(ps, key, default) == IF key \in Keys(ps) THEN ps[key] ELSE default

\* The operation the precedence rules select: <<>> when there is none,
\* otherwise <<[method, args]>>.
ExpectedCall(tool, ps) ==
    CASE tool = "github" /\ Has(ps, "query") ->
            << [method |-> "search_repositories",
                args |-> [query |-> ps.query,
                          sort |-> Supplied(ps, "sort", "stars"),
                          limit |-> Supplied(ps, "limit", 5)]] >>
      [] tool = "weather" /\ Has(ps, "city") ->
            << [method |-> "get_current_weather",
                args |-> [city |-> ps.city,
                          units |-> Supplied(ps, "units", "metric")]] >>
      [] tool = "weather" /\ ~Has(ps, "city") /\ Has(ps, "cities") ->
            << [method |-> "compare_weather",
                args |-> [cities |-> ps.cities,
                          units |-> Supplied(ps, "units", "metric")]] >>
      [] tool = "wikipedia" /\ Has(ps, "topic") ->
            << [method |-> "get_summary",
                args |-> [topic |-> ps.topic,
                          sentences |-> Supplied(ps, "sentences", 3)]] >>
      [] tool = "wikipedia" /\ ~Has(ps, "topic") /\ Has(ps, "query") ->
            << [method |-> "search_articles",
                args |-> [query |-> ps.query,
                          limit |-> Supplied(ps, "limit", 5)]] >>
      [] tool = "wikipedia" /\ ~Has(ps, "topic") /\ ~Has(ps, "query")
            /\ Has(ps, "topics") ->
            << [method |-> "compare_topics", args |-> [topics |-> ps.topics]] >>
      [] OTHER -> <<>>

StepTool(k) == Get(plan.steps.items[k], "tool", "")
StepParameters(k) == Get(plan.steps.items[k], "parameters", EmptyDict)

\* the step whose attempts the histories invocations and sleeps hold
LatestStep == IF pc \in {"call", "sleep"} THEN idx ELSE idx - 1

CallsOf(k) == { j \in DOMAIN tool_calls : tool_calls[j].step = k }

\* C28: the dispatch follows the fixed precedence for every subset of the
\* parameter keys: each tool operation invoked for a step is the one the
\* rules select for the step's tool and parameters, with the defaults
\* (sort 'stars', limit 5, units 'metric', sentences 3) unless a value is
\* supplied, and each attempt of a step invokes exactly one operation.
C28_DispatchPrecedence ==
    HasStepList =>
        /\ \A j \in DOMAIN tool_calls :
              LET expected ==
                      ExpectedCall(StepTool(tool_calls[j].step),
                                   StepParameters(tool_calls[j].step))
              IN  /\ Len(expected) = 1
                  /\ tool_calls[j].method = expected[1].method
                  /\ tool_calls[j].args = expected[1].args
        /\ (LatestStep >= 1
             /\ ExpectedCall(StepTool(LatestStep),
                             StepParameters(LatestStep)) # <<>>
             /\ StepTool(LatestStep) \in tools)
              => Cardinality(CallsOf(LatestStep)) = Len(invocations)

C28_Witness ==
    /\ HasStepList
    /\ StepTool(1) = "weather"
    /\ {"city", "cities"} \subseteq Keys(StepParameters(1))
    /\ Len(tool_calls) = 1
    /\ tool_calls[1].method = "get_current_weather"
    /\ exec_ret.kind = "return"

C28_WitnessTopics ==
    /\ HasStepList
    /\ StepTool(1) = "wikipedia"
    /\ Keys(StepParameters(1)) = {"topics", "city"}
    /\ Len(tool_calls) = 2
    /\ tool_calls[2].method = "compare_topics"

C28_WitnessSupplied ==
    /\ HasStepList
    /\ StepTool(1) = "github"
    /\ Len(tool_calls) = 1
    /\ tool_calls[1].args.sort = "forks"
    /\ tool_calls[1].args.limit = 10

\* a step that names a registered tool of the dispatch but none of the keys
\* the tool accepts
LacksParameters(k) ==
    /\ StepTool(k) \in KnownTools \cap tools
    /\ IsDict(StepParameters(k))
    /\ CASE StepTool(k) = "github" -> "query" \notin Keys(StepParameters(k))
         [] StepTool(k) = "weather" ->
               Keys(StepParameters(k)) \cap {"city", "cities"} = {}
         [] StepTool(k) = "wikipedia" ->
               Keys(StepParameters(k)) \cap {"topic", "query", "topics"} = {}

MissingParameterError(error) ==
    /\ Len(error.text) >= 4
    /\ SubSeq(error.text, 2, 3) = <<"tool", "requires">>
    /\ Last(error.text) = "parameter"

\* C29: a step whose parameters hold none of the keys its tool accepts is
\* recorded as failed with the missing-parameter error after one attempt:
\* no tool operation invoked, no retry, no sleep.
C29_MissingParameterFailsStep ==
    (StepJustRecorded /\ LacksParameters(idx - 1)) =>
        /\ results[idx - 1].status = "failed"
        /\ MissingParameterError(results[idx - 1].error)
        /\ results[idx - 1].data = None
        /\ CallsOf(idx - 1) = {}
        /\ Len(invocations) = 1
        /\ sleeps = <<>>

C29_Witness ==
    /\ StepJustRecorded
    /\ idx = 2
    /\ LacksParameters(1)
    /\ StepTool(1) = "wikipedia"
    /\ Keys(StepParameters(1)) = {"city", "cities"}
    /\ results[1].status = "failed"

C29_WitnessGithub ==
    /\ StepJustRecorded
    /\ idx = 3
    /\ LacksParameters(2)
    /\ StepTool(2) = "github"
    /\ results[1].status = "success"
    /\ results[2].status = "failed"

(***************************************************************************)
(* Properties of PlannerAgent: the gateway call *)
(***************************************************************************)
\* create_plan has ended for a query that is not empty
PlannerEnded == planner_ret # NoRet /\ query # <<>> /\ strip(query) # <<>>

\* C30: create_plan invokes the LLM gateway exactly once per call, in JSON
\* mode with a budget of 2000 tokens, and never asks again: a gateway error
\* is passed on unmodified and a plan that fails validation raises the
\* validation error, each after that single gateway call.
C30_SingleGatewayCall ==
    /\ Cardinality(CallsBy("planner")) <= 1
    /\ pc = "planning" => Cardinality(CallsBy("planner")) = 1
    /\ PlannerEnded =>
          /\ Cardinality(CallsBy("planner")) = 1
          /\ gateway_calls[1]
                = [caller |-> "planner", method |-> "generate_json_completion",
                   max_tokens |-> 2000]
          /\ PlannerOut.kind = "raise" => planner_ret = PlannerOut
          /\ (PlannerOut.kind = "return" /\ ~PlanInvariant(PlannerOut.value))
                => planner_ret = ValidationError
          /\ planner_ret.kind = "return" => planner_ret.value = PlannerOut.value

C30_Witness ==
    /\ PlannerEnded
    /\ PlannerOut.kind = "return"
    /\ planner_ret = ValidationError
    /\ stage = "none"

C30_WitnessGatewayError ==
    /\ PlannerEnded
    /\ PlannerOut.kind = "raise"
    /\ planner_ret.kind = "raise"
    /\ stage = "none"

-----------------------------------------------------------------------------
(* Properties of PlannerAgent._detect_comparison_intent *)

\* _detect_comparison_intent was called by itself and has returned
DetectEnded ==
    /\ is_comparison.kind = "return"
    /\ planner_ret = NoRet
    /\ gateway_calls = <<>>

HasComma(text) == Contains(Lower(text), <<",">>)

HasConjunction(text) ==
    \/ Contains(Lower(text), <<" ", "and", " ">>)
    \/ Contains(Lower(text), <<" ", "or", " ">>)

\* one of compare, vs, versus, difference between, which is better,
\* better than, contrast
HasListedKeyword(text) ==
    \E keyword \in { <<"compare">>, <<"vs">>, <<"versus">>,
                     <<"difference", " ", "between">>,
                     <<"which", " ", "is", " ", "better">>,
                     <<"better", " ", "than">>, <<"contrast">> } :
        Contains(Lower(text), keyword)

\* comparison or differences between
HasFurtherKeyword(text) ==
    \/ Contains(Lower(text), <<"comparison">>)
    \/ Contains(Lower(text), <<"differences", " ", "between">>)

\* C31 as stated: a query is flagged exactly when it contains one of the seven
\* listed keywords or both a comma and a conjunction; a query with a
\* conjunction, no comma and no keyword is not flagged.
C31_FlaggedByKeywordOrCommaConjunction ==
    DetectEnded =>
        /\ is_comparison.value <=>
               (HasListedKeyword(query)
                \/ (HasComma(query) /\ HasConjunction(query)))
        /\ (HasConjunction(query) /\ ~HasComma(query)
            /\ ~HasListedKeyword(query)) => ~is_comparison.value

\* C31 amended: a query is flagged exactly when it contains one of the seven
\* listed keywords, or "comparison", or "differences between", or a conjunction
\* (and/or between spaces), with or without a comma; a query with a
\* conjunction, no comma and no keyword is flagged.
C31_FlaggedByKeywordOrConjunction ==
    DetectEnded =>
        /\ is_comparison.value <=>
               (HasListedKeyword(query) \/ HasFurtherKeyword(query)
                \/ HasConjunction(query))
        /\ (HasConjunction(query) /\ ~HasComma(query)
            /\ ~HasListedKeyword(query)) => is_comparison.value

\* a query with a conjunction, no comma and no keyword was flagged
C31_Witness ==
    /\ DetectEnded
    /\ HasConjunction(query) /\ ~HasComma(query) /\ ~HasListedKeyword(query)
    /\ is_comparison.value

\* a query with a comma and a word "and" that is not between spaces was not
\* flagged
C31_WitnessNotFlagged ==
    /\ DetectEnded
    /\ HasComma(query) /\ Contains(Lower(query), <<"and">>)
    /\ ~is_comparison.value

\* a query was flagged for a keyword in upper case
C31_WitnessUpperCase ==
    /\ DetectEnded
    /\ ~HasListedKeyword(<<query[1]>>) /\ HasListedKeyword(query)
    /\ Contains(query, <<"VS">>)
    /\ is_comparison.value

-----------------------------------------------------------------------------
(* Properties of the StepResult and the execution log *)

IsStr(v) == v.py_type = "str"

\* C32: every StepResult produced by execute_plan has a consistent shape: a
\* 'failed' one has data None and a str as error, a 'success' one has error
\* None and as data the value the tool operation returned, and execution_time
\* is never negative.
C32_StepResultShape ==
    /\ \A i \in DOMAIN results :
           LET r == results[i]
           IN  /\ r.status \in {"success", "failed"}
               /\ r.status = "failed" => (r.data = None /\ IsStr(r.error))
               /\ r.status = "success" => r.error = None
               /\ r.execution_time >= 0
    /\ (StepJustRecorded /\ results[idx - 1].status = "success") =>
           /\ invocations # <<>>
           /\ Last(invocations) = Returned(results[idx - 1].data)
    /\ ExecReturned => exec_ret.value.results = results

\* a plan ended with a step that succeeded after a retry and a step that
\* failed
C32_Witness ==
    /\ ExecReturned
    /\ \E i, j \in DOMAIN results :
           /\ results[i].status = "success"
           /\ results[i].execution_time > 0
           /\ results[j].status = "failed"
           /\ results[j].error.text = <<"City", "not", "found">>

\* a step failed for a tool that is not registered
C32_WitnessUnknownTool ==
    /\ StepJustRecorded
    /\ invocations = <<>>
    /\ results[idx - 1].status = "failed"
    /\ results[idx - 1].execution_time = 0

\* C33: the execution_log of an ExecutionResult has exactly one entry per plan
\* step, in plan order, and the i-th entry reports SUCCESS if and only if
\* results[i].status is 'success', otherwise FAILED with the error text of
\* that step.
C33_LogEntryPerStep ==
    /\ Len(execution_log) = Len(results)
    /\ \A i \in DOMAIN execution_log :
           /\ execution_log[i].step_number = results[i].step_number
           /\ execution_log[i].status \in {"SUCCESS", "FAILED"}
           /\ execution_log[i].status = "SUCCESS" <=>
                  results[i].status = "success"
           /\ execution_log[i].status = "FAILED" =>
                  execution_log[i].detail = results[i].error.text
    /\ ExecReturned =>
           /\ exec_ret.value.execution_log = execution_log
           /\ Len(exec_ret.value.execution_log) = NumSteps
           /\ \A i \in 1..NumSteps :
                  exec_ret.value.execution_log[i].step_number =
                      Get(plan.steps.items[i], "step_number", 0)

\* a plan of two steps ended with one SUCCESS and one FAILED entry
C33_Witness ==
    /\ ExecReturned
    /\ Len(exec_ret.value.execution_log) = 2
    /\ \E i, j \in 1..2 :
           /\ exec_ret.value.execution_log[i].status = "SUCCESS"
           /\ exec_ret.value.execution_log[j].status = "FAILED"
           /\ exec_ret.value.execution_log[j].detail = <<"City", "not", "found">>

\* the entries follow the list also when the step numbers run backwards
C33_WitnessRenumbered ==
    /\ ExecReturned
    /\ Len(exec_ret.value.execution_log) = 2
    /\ exec_ret.value.execution_log[1].step_number >
           exec_ret.value.execution_log[2].step_number

-----------------------------------------------------------------------------
(* Properties of ExecutorAgent: two plans on one agent *)

\* the ExecutionResult describes the steps of the plan in hand and nothing else
DescribesPlanOnly(er) ==
    /\ Len(er.results) = NumSteps
    /\ Len(er.execution_log) = NumSteps
    /\ er.steps_completed + er.steps_failed = NumSteps
    /\ er.steps_completed =
           Cardinality({ i \in DOMAIN er.results :
                           er.results[i].status = "success" })
    /\ er.success <=> er.steps_completed > 0
    /\ \A i \in 1..NumSteps :
           /\ er.results[i].step_number = plan.steps.items[i].step_number
           /\ er.execution_log[i].step_number = er.results[i].step_number
           /\ er.execution_log[i].status = "SUCCESS" <=>
                  er.results[i].status = "success"

SecondCallReturned == prev_ret.kind = "return" /\ exec_ret.kind = "return"

\* C34: the executor retains no state between plans.  When the same
\* ExecutorAgent runs execute_plan twice, the second result's execution_log,
\* results and tallies describe only the steps of the second plan, and the
\* ExecutionResult the first call returned, its execution_log included, is
\* left unchanged by the second call.
C34_NoStateBetweenPlans ==
    [][ /\ (prev_ret.kind = "none" /\ prev_ret'.kind = "return") =>
              (prev_ret' = exec_ret /\ DescribesPlanOnly(exec_ret.value))
        /\ prev_ret.kind = "return" => prev_ret' = prev_ret
        /\ prev_ret'.kind = "return" =>
              /\ Len(execution_log') = Len(results')
              /\ Len(results') <= Len(plan'.steps.items)
        /\ SecondCallReturned' => DescribesPlanOnly(exec_ret.value)'
      ]_vars

\* a plan of one step has ended on an agent that ran a plan of two steps
\* before
C34_Witness ==
    /\ SecondCallReturned
    /\ Len(prev_ret.value.execution_log) = 2
    /\ Len(exec_ret.value.execution_log) = 1
    /\ prev_ret.value.steps_failed = 2
    /\ exec_ret.value.steps_completed = 1

\* a plan of two steps has ended on an agent that ran a plan of one step
\* before
C34_WitnessLonger ==
    /\ SecondCallReturned
    /\ Len(prev_ret.value.results) = 1
    /\ prev_ret.value.success
    /\ Len(exec_ret.value.results) = 2
    /\ ~exec_ret.value.success

-----------------------------------------------------------------------------
(* Properties of WikipediaTool.get_summary *)

WikiEnded == wiki_ret.kind # "none"

\* the k-th request is the search of _handle_disambiguation
IsAlternativeSearch(k) ==
    /\ k > 1
    /\ wiki_requests[k].op = "search"
    /\ wiki_requests[k - 1].op = "summary"
    /\ wiki_requests[k - 1].out.kind = "return"

\* the titles of a search that are no disambiguation entries
Hits(out) ==
    IF out.kind = "raise" THEN <<>>
    ELSE SelectSeq(out.value,
                   LAMBDA title : title # "Mercury (disambiguation)")

-----------------------------------------------------------------------------
(* Properties of process_query: overall success *)

\* process_query has ended after a verification that returned
VerifiedAndFinished ==
    /\ stage = "finished"
    /\ exec_ret.kind = "return"
    /\ verify_ret.kind = "return"

AllStepsSucceeded ==
    /\ Len(exec_ret.value.results) = Len(pq_result.plan.steps.items)
    /\ \A i \in DOMAIN exec_ret.value.results :
           exec_ret.value.results[i].status = "success"

\* C36: when verification completes without raising, process_query reports
\* success true if and only if every plan step succeeded, which is
\* execution.success and verification.is_complete; an execution that
\* succeeded in part (success true with at least one failed step) yields
\* overall success false.
C36_SuccessIffEveryStepSucceeded ==
    VerifiedAndFinished =>
        /\ pq_result.success <=> AllStepsSucceeded
        /\ pq_result.success <=>
               (exec_ret.value.success /\ verify_ret.value.is_complete)
        /\ (exec_ret.value.success /\ exec_ret.value.steps_failed > 0) =>
               ~pq_result.success

\* an execution with one step completed and one failed ended as no success
C36_Witness ==
    /\ VerifiedAndFinished
    /\ exec_ret.value.success
    /\ exec_ret.value.steps_failed > 0
    /\ ~pq_result.success

\* every step succeeded and process_query reported success
C36_WitnessSuccess ==
    /\ VerifiedAndFinished
    /\ AllStepsSucceeded
    /\ pq_result.success

-----------------------------------------------------------------------------
(* Properties of process_query: from planning to verification *)

\* what is left of execute_plan: the steps not yet recorded count most, then
\* the attempts left to the retry wrapper, then the position inside an attempt
ExecutionLeft ==
    LET per_step == 2 * max_retries + 4
        steps_left == NumSteps - Len(results)
    IN  CASE pc = "done" -> 0
          [] pc = "loop" -> steps_left * per_step + per_step - 1
          [] pc = "call" -> steps_left * per_step + 2 * (max_retries - attempt) + 2
          [] pc = "sleep" ->
                steps_left * per_step + 2 * (max_retries - attempt) + 1
          [] OTHER -> 0 - 1

\* C37: after a successful planning stage process_query always reaches the
\* verification stage.  For every plan create_plan returned and whatever the
\* tools do, execute_plan is always able to take its next step, every step
\* brings it nearer to its end, it ends by returning an ExecutionResult and
\* never by raising, so the execution-failure branches are not taken, and
\* verify_results is called once, at the step from execution to
\* verification.
C37_PlanningSuccessReachesVerification ==
    /\ [](stage = "execution" =>
             /\ planner_ret.kind = "return"
             /\ exec_ret.kind # "raise"
             /\ ExecutionLeft >= 0
             /\ ENABLED (BeginStep \/ Invoke \/ Sleep \/ FinishPlan
                             \/ AfterExecution))
    /\ [][ /\ (stage = "execution" /\ stage' = "execution") =>
                 ExecutionLeft' < ExecutionLeft
           /\ (stage = "execution" /\ stage' # "execution") =>
                 /\ stage' = "verification"
                 /\ exec_ret.kind = "return"
                 /\ v_plan' = planner_ret.value
                 /\ v_exec' = exec_ret.value
           /\ (stage = "planning" /\ stage' # "planning"
                  /\ planner_ret.kind = "return") => stage' = "execution"
           /\ (stage # "none" /\ stage' # "none"
                  /\ <<v_plan, v_exec>>' # <<v_plan, v_exec>>) =>
                 (stage = "execution" /\ stage' = "verification")
           /\ stage = "verification" => stage' \in {"verification", "finished"}
        ]_vars

\* the verification stage was reached after an execution in which every
\* step failed, one of them after the retries were used up
C37_Witness ==
    /\ stage = "verification"
    /\ exec_ret.kind = "return"
    /\ exec_ret.value.steps_completed = 0
    /\ exec_ret.value.steps_failed = 2
    /\ \E i \in 1..2 : exec_ret.value.results[i].execution_time = 7

\* process_query ended after a verification whose execution had succeeded
C37_WitnessFinished ==
    /\ stage = "finished"
    /\ exec_ret.kind = "return"
    /\ exec_ret.value.success
    /\ "verification" \in Keys(pq_result)

-----------------------------------------------------------------------------
(* Properties of LLMClient: the last attempt *)

\* C38: in generate_completion no backoff sleep follows the final attempt.
\* Whenever a call that invoked the provider ends in failure, it slept fewer
\* times than it invoked the provider, for both providers and every kind of
\* transient error.
C38_NoSleepAfterFinalAttempt ==
    (LLMEnded /\ llm_ret.kind = "raise" /\ llm_invocations # <<>>) =>
        Len(llm_sleeps) < Len(llm_invocations)

\* C39: every call of generate_completion with a non-empty message list
\* invokes the provider at least once before it can fail, for every
\* max_retries >= 0, and the error it ends with reports an error the provider
\* raised.
C39_ProviderInvokedBeforeFailure ==
    (LLMEnded /\ llm_ret.kind = "raise" /\ llm_messages # <<>>) =>
        /\ Len(llm_invocations) >= 1
        /\ llm_last_error # NoException
        /\ \E i \in DOMAIN llm_invocations :
               /\ llm_invocations[i].kind = "raise"
               /\ llm_invocations[i].exc = llm_last_error

-----------------------------------------------------------------------------
(* Properties of ExecutorAgent: a step dispatched to compare_weather *)

\* step k is a weather step with 'cities' a list and no 'city'
IsComparisonStep(k) ==
    /\ StepTool(k) = "weather"
    /\ StepTool(k) \in tools
    /\ Has(StepParameters(k), "cities")
    /\ ~Has(StepParameters(k), "city")
    /\ IsList(StepParameters(k).cities)

\* the entry stands for a city whose lookup failed
IsPlaceholder(entry) == "error" \in Keys(entry)

\* C40: a weather step dispatched to the multi-location comparison ('cities'
\* present, 'city' absent, cities a list) is always recorded with status
\* 'success' after exactly one compare_weather invocation, even when the
\* lookup failed for every city: the failures of the cities, transient ones
\* included, become placeholder entries, the retry wrapper never retries
\* them and steps_failed does not count them.
C40_ComparisonStepSucceeds ==
    HasStepList =>
        /\ \A k \in DOMAIN results :
               IsComparisonStep(k) =>
                   /\ results[k].status = "success"
                   /\ results[k].execution_time = 0
                   /\ IsList(results[k].data)
                   /\ Len(results[k].data.items) =
                          Len(StepParameters(k).cities.items)
                   /\ \A i \in DOMAIN results[k].data.items :
                          results[k].data.items[i].city =
                              StepParameters(k).cities.items[i]
                   /\ Cardinality(CallsOf(k)) = 1
                   /\ \A j \in CallsOf(k) :
                          tool_calls[j].method = "compare_weather"
        /\ (StepRecorded /\ IsComparisonStep(idx - 1)) =>
               /\ Len(invocations) = 1
               /\ invocations[1].kind = "return"
               /\ sleeps = <<>>
        /\ (pc \in {"call", "sleep"} /\ IsComparisonStep(idx)) =>
               (pc = "call" /\ attempt = 0 /\ invocations = <<>>)
        /\ steps_failed =
               Cardinality({ k \in DOMAIN results :
                               /\ results[k].status = "failed"
                               /\ ~IsComparisonStep(k) })

\* a comparison step was recorded as a success with a placeholder for every
\* city, one of them for a transient failure
C40_Witness ==
    /\ ExecReturned
    /\ IsComparisonStep(1)
    /\ results[1].status = "success"
    /\ Len(results[1].data.items) = 2
    /\ \A i \in 1..2 : IsPlaceholder(results[1].data.items[i])
    /\ \E i \in 1..2 :
           results[1].data.items[i].error =
               <<"Unexpected", "error:", "Connection", "timeout">>
    /\ exec_ret.value.steps_failed = 0
    /\ exec_ret.value.success

\* a comparison step with a reading for one city and a placeholder for the
\* other
C40_WitnessPartial ==
    /\ ExecReturned
    /\ IsComparisonStep(1)
    /\ ~IsPlaceholder(results[1].data.items[1])
    /\ IsPlaceholder(results[1].data.items[2])

====
